---- MODULE Spec2Model ----
(***************************************************************************)
(* Credential store of the Discord/GitHub upload bot.                      *)
(*                                                                         *)
(* userTokens.ts (src/unnamed/part_001): the per-user token store, its     *)
(* file lock (FileLock, withLock), the temp-file-plus-rename write path    *)
(* and the lock-free readers.  encryption.ts: the salt cache and the       *)
(* AES-256-GCM token cipher.                                               *)
(*                                                                         *)
(* Every await of the source is a scheduling point.  One action of the     *)
(* model is one file-system call (or timer) together with the synchronous  *)
(* code that runs when it completes, up to the next await.  Wall-clock     *)
(* time is the variable now (milliseconds); it advances in steps of TickMs *)
(* and may advance between any two actions.                                *)
(***************************************************************************)
EXTENDS Integers, Sequences, FiniteSets, Bags, TLC

----------------------------------------------------------------------------
(* Program constants *)

LOCK_TIMEOUT == 5000

RETRY_DELAY == 50

SALT_LENGTH == 64

(* Bounds of the model *)

TicksPerTimeout == 2

MaxTicks == 4

TickMs == LOCK_TIMEOUT \div TicksPerTimeout

MaxTime == MaxTicks * TickMs

\* The concurrent invocations of saveUserToken and removeUserToken
Procs == {1, 2}

\* Discord user ids
Ids == {1, 2}

\* GitHub tokens (plaintexts): user i logs in with the token TokenOf(i)
Tokens == {1, 2}

TokenOf(i) == i

\* The concurrent calls of initEncryption
NumSaltCalls == 3

SaltCalls == 1..NumSaltCalls

----------------------------------------------------------------------------
(* The cipher.  A stored string is the sequence of its ':'-separated       *)
(* fields.  Keys, nonces, tags and ciphertexts are numbers; the key        *)
(* derivation and the tag are injective encodings, the ciphertext is the   *)
(* plaintext shifted by a keystream that depends on key and nonce.  A salt *)
(* is a buffer: its length and a number standing for its bytes.            *)

\* process.env.ENCRYPTION_SECRET, at least 32 characters long
TheSecret == [len |-> 32, val |-> 1]

\* cachedSalt = null
NoSalt == [set |-> FALSE, len |-> 0, val |-> 0]

Salt(n) == [set |-> TRUE, len |-> SALT_LENGTH, val |-> n]

\* The salt of this deployment, and the salt of an earlier one (lost since)
GoodSalt == Salt(1)

LostSalt == Salt(2)

\* Buffer.from('', 'hex'): what an empty salt file decodes to
EmptySalt == [set |-> TRUE, len |-> 0, val |-> 0]

\* The strings the cipher is given: the tokens, the empty string, a string
\* with an unpaired surrogate, and that string with U+FFFD in its place.
EmptyString == 0

Unpaired == 3

Replaced == 4

CipherStrings == Tokens \cup {EmptyString, Unpaired, Replaced}

\* cipher.update(token, 'utf8', ...) and decipher.update(..., 'utf8'): the
\* UTF-8 encoding of a string, read back as a string.  An unpaired surrogate
\* has no UTF-8 encoding; Node writes U+FFFD for it.
Utf8(x) == IF x = Unpaired THEN Replaced ELSE x

Modulus == Cardinality(CipherStrings)

pbkdf2Sync(sec, salt) == sec.val * 16 + salt.val

Keystream(key, iv) == key + iv

CipherText(key, iv, token) == (Utf8(token) + Keystream(key, iv)) % Modulus

AuthTag(key, iv, ct) == (key * 8 + iv) * 8 + ct

\* getEncryptionKey without the test of cachedSalt.
CanDeriveKey_NoSaltTest(sec, salt) == sec.len >= 32

\* getEncryptionKey: throws when no secret or no salt is there.
CanDeriveKey(sec, salt) == sec.len >= 32 /\ salt.set

getEncryptionKey(sec, salt) == pbkdf2Sync(sec, salt)

\* encryptToken(token) with the nonce iv drawn: iv:authTag:encrypted
encryptToken(token, sec, salt, iv) ==
  LET key == getEncryptionKey(sec, salt)
      ct == CipherText(key, iv, token)
  IN <<iv, AuthTag(key, iv, ct), ct>>

\* decryptToken: does it return (TRUE) or throw (FALSE)?
DecryptOk(blob, sec, salt) ==
  /\ CanDeriveKey(sec, salt)
  /\ Len(blob) = 3
  /\ blob[2] = AuthTag(getEncryptionKey(sec, salt), blob[1], blob[3])

\* decryptToken deciphering without the nonce.
decryptToken_NoIv(blob, sec, salt) ==
  LET ks == Keystream(getEncryptionKey(sec, salt), 0)
  IN Utf8((blob[3] + Modulus * (ks + 1) - ks) % Modulus)

\* decryptToken's return value where DecryptOk
decryptToken(blob, sec, salt) ==
  LET ks == Keystream(getEncryptionKey(sec, salt), blob[1])
  IN Utf8((blob[3] + Modulus * (ks + 1) - ks) % Modulus)

----------------------------------------------------------------------------
(* Files.  A file is absent, partial (opened with truncation and not yet   *)
(* completely written: not parsable), or holds a complete record map.  A   *)
(* record map gives each identity its githubToken string, <<>> for none.   *)

EmptyMap == [i \in Ids |-> <<>>]

AbsentFile == [st |-> "absent", map |-> EmptyMap]

PartialFile == [st |-> "partial", map |-> EmptyMap]

DataFile(m) == [st |-> "data", map |-> m]

NoLock == [held |-> FALSE, owner |-> 0, mtime |-> 0]

MapSize(m) == Cardinality({i \in Ids : m[i] # <<>>})

VARIABLES
  now,          \* Date.now()
  lockFile,     \* data/user_tokens.lock: who created it, and its mtime
  tokensFile,   \* data/user_tokens.json
  tmpFile,      \* data/user_tokens.json.tmp
  cachedSalt,   \* encryption.ts cachedSalt
  saltFile,     \* data/encryption.salt
  spc,          \* each initEncryption call's position
  saltHex,      \* the text each call hands to writeFile(SALT_FILE, ...)
  pc,           \* each invocation's position
  op,           \* each invocation's operation and arguments
  startTime,    \* FileLock.acquire: startTime
  wakeAt,       \* when the retry timer of acquire fires
  acquired,     \* FileLock.acquired
  tokens,       \* the record map the invocation loaded (and changed)
  fd,           \* which file the invocation's open temp-file descriptor names
  result,       \* how the invocation ended
  got,          \* the getUserToken call that just returned: argument and answer
  hist,         \* per invocation: what it did (read by the properties only)
  freshAll      \* per invocation: a fresh lock file was there all through its wait

storeVars == <<now, lockFile, tokensFile, tmpFile, pc, op, startTime,
               wakeAt, acquired, tokens, fd, result, got, hist, freshAll>>

saltVars == <<saltFile, spc, saltHex>>

VARIABLES
  cin,          \* the cipher calls: the token, the secret of the environment
  cblob,        \* the string encryptToken returned, or a stored one
  plain,        \* what decryptToken returned
  cpc           \* where the cipher calls stand

cipherVars == <<cin, cblob, plain, cpc>>

VARIABLES
  path,         \* the argument of isValidPath
  valid         \* what isValidPath returned

pathVars == <<path, valid>>

VARIABLES
  zipBuffer,     \* the archive uploaded: its entries, in order
  folderPath,    \* the target folder, empty for the repository root
  upc,           \* where uploadZipContentsToGitHub stands
  zipEntries,    \* the entries kept by the filter (their numbers, in order)
  commonPrefix,  \* what findCommonPrefix returned
  bi,            \* the loop variable i
  est,           \* per entry: where its publish stands
  sha,           \* per entry: the version marker read
  uploadedFiles, \* the counter
  failedFiles,   \* the list, each element an entry and the reason text
  calls,         \* the hosting-API calls issued so far (for the properties)
  readData       \* the entries whose getData was called (for the properties)

uploadVars == <<zipBuffer, folderPath, upc, zipEntries, commonPrefix, bi, est,
                sha, uploadedFiles, failedFiles, calls, readData>>

VARIABLES
  rateLimitMap,  \* per identity: its RateLimitEntry, or NoEntry
  clock,         \* the last value Date.now() returned (milliseconds)
  limited,       \* the last checkRateLimit call: identity, entry before, result
  seen           \* allowed commands counted from a marked one (for the properties)

rateVars == <<rateLimitMap, clock, limited, seen>>

VARIABLES
  dpc,           \* where downloadFile stands
  totalSize,     \* the bytes of the chunks pushed so far
  waited,       \* milliseconds since the request was made
  settled        \* how the promise settled, and the error it rejected with

downloadVars == <<dpc, totalSize, waited, settled>>

VARIABLES
  cmd,           \* the slash command being handled, and where its handler stands
  reply,         \* what the handler answered
  atStart        \* the store file when the command arrived (for the properties)

commandVars == <<cmd, reply, atStart>>

VARIABLES
  err,           \* the argument of sanitizeErrorMessage
  sanitized      \* what sanitizeErrorMessage returned

sanitizeVars == <<err, sanitized>>

\* What the cipher, the path check and the upload leave alone
moreVars == <<rateVars, downloadVars, commandVars, sanitizeVars>>

\* What the store and the salt loader leave alone
otherVars == <<cipherVars, pathVars, uploadVars, moreVars>>

vars == <<storeVars, cachedSalt, saltVars, otherVars>>

NoOp == [kind |-> "none", id |-> 0, token |-> 0]

\* entered: it acquired the lock; wrote: its rename replaced the store file;
\* unlinked: it removed a lock file while waiting; staleAtCall: when it was
\* called, the lock file a crashed run left behind was there and older than
\* LOCK_TIMEOUT
NoHist == [entered |-> FALSE, wrote |-> FALSE, unlinked |-> FALSE,
           staleAtCall |-> FALSE]

NoGet == [id |-> 0, res |-> "none", val |-> 0]

\* A lock file a crashed run of the bot left behind: no invocation owns it.
LeftoverLock == [held |-> TRUE, owner |-> 0, mtime |-> 0]

\* Store files a deployment can start from: none, a record of identity 1
\* encrypted under the current salt, and a file from before the salt was
\* lost: identity 1's record is encrypted under the lost salt and identity
\* 2's stored string is malformed (two fields).
InitialStores ==
  { AbsentFile,
    DataFile([EmptyMap EXCEPT ![1] = encryptToken(TokenOf(1), TheSecret, GoodSalt, 7)]),
    DataFile([i \in Ids |-> IF i = 1
                            THEN encryptToken(TokenOf(1), TheSecret, LostSalt, 7)
                            ELSE <<7, 1>>]) }

\* The salt file: absent, partial (opened with truncation, nothing written
\* yet) or holding the hex text of a buffer
NoSaltFile == [st |-> "absent", salt |-> NoSalt]

PartialSaltFile == [st |-> "partial", salt |-> NoSalt]

SaltFileOf(b) == [st |-> "data", salt |-> b]

\* A salt file that does not decode to SALT_LENGTH bytes
ShortSalt == [set |-> TRUE, len |-> SALT_LENGTH \div 2, val |-> 3]

StoreInit ==
  /\ now = 0
  /\ lockFile \in {NoLock, LeftoverLock}
  /\ tokensFile \in InitialStores
  /\ tmpFile = AbsentFile
  /\ pc = [p \in Procs |-> "idle"]
  /\ op = [p \in Procs |-> NoOp]
  /\ startTime = [p \in Procs |-> 0]
  /\ wakeAt = [p \in Procs |-> 0]
  /\ acquired = [p \in Procs |-> FALSE]
  /\ tokens = [p \in Procs |-> EmptyMap]
  /\ fd = [p \in Procs |-> "none"]
  /\ result = [p \in Procs |-> "none"]
  /\ got = NoGet
  /\ hist = [p \in Procs |-> NoHist]
  /\ freshAll = [p \in Procs |-> TRUE]

SaltIdle ==
  /\ spc = [c \in SaltCalls |-> "idle"]
  /\ saltHex = [c \in SaltCalls |-> NoSalt]

NoCipherCall == [x |-> 0, secret |-> TheSecret]

CipherIdle ==
  /\ cin = NoCipherCall
  /\ cblob = <<>>
  /\ plain = 0
  /\ cpc = "idle"

\* A non-string argument (null, undefined)
NotAString == [isString |-> FALSE, chars |-> <<>>]

String(cs) == [isString |-> TRUE, chars |-> cs]

PathIdle == path = NotAString /\ valid = "none"

UploadIdle ==
  /\ zipBuffer = <<>>
  /\ folderPath = <<>>
  /\ upc = "idle"
  /\ zipEntries = <<>>
  /\ commonPrefix = <<>>
  /\ bi = 0
  /\ est = <<>>
  /\ sha = <<>>
  /\ uploadedFiles = 0
  /\ failedFiles = <<>>
  /\ calls = EmptyBag
  /\ readData = {}

Users == {1, 2}

NoEntry == [lastCommand |-> 0, commandCount |-> 0, resetTime |-> 0]

NoCheck == [userId |-> 0, before |-> NoEntry, allowed |-> TRUE, retryAfter |-> 0]

Unmarked == [mark |-> -1, count |-> 0]

RateIdle ==
  /\ rateLimitMap = [u \in Users |-> NoEntry]
  /\ clock = 0
  /\ limited = NoCheck
  /\ seen = Unmarked

Pending == [how |-> "pending", error |-> "none", size |-> 0]

DownloadIdle ==
  /\ dpc = "idle"
  /\ totalSize = 0
  /\ waited = 0
  /\ settled = Pending

NoCommand == [kind |-> "none", user |-> 0, grant |-> "none", step |-> "idle", n |-> 0]

CommandIdle ==
  /\ cmd = NoCommand
  /\ reply = "none"
  /\ atStart = AbsentFile

NoError == [given |-> FALSE, message |-> <<>>]

SanitizeIdle == err = NoError /\ sanitized = NotAString

MoreIdle == RateIdle /\ DownloadIdle /\ CommandIdle /\ SanitizeIdle

OtherIdle == CipherIdle /\ PathIdle /\ UploadIdle /\ MoreIdle

\* The store runs either with the salt loaded at startup or, as index.ts
\* never calls initEncryption, without one.
Init ==
  /\ StoreInit
  /\ SaltIdle
  /\ OtherIdle
  /\ \/ cachedSalt = GoodSalt /\ saltFile = SaltFileOf(GoodSalt)
     \/ cachedSalt = NoSalt /\ saltFile = NoSaltFile

----------------------------------------------------------------------------
(* FileLock and withLock *)

Waiting(s) == s \in {"create", "statLock", "unlink", "sleep"}

\* freshAll[p]: in every state since p's call in which p waited for the lock,
\* a lock file was there and was at most LOCK_TIMEOUT old.
TrackFresh ==
  freshAll' = [p \in Procs |->
                 IF Waiting(pc'[p])
                 THEN freshAll[p] /\ lockFile'.held
                      /\ now' - lockFile'.mtime <= LOCK_TIMEOUT
                 ELSE freshAll[p]]

\* What every step of the store leaves alone, and the bookkeeping of freshAll
Frame == TrackFresh /\ UNCHANGED <<cachedSalt, saltVars, otherVars>>

\* The same for the steps of the writers and of the clock: the answer of the
\* last getUserToken call is forgotten
StoreFrame == Frame /\ got' = NoGet

\* acquire, line 32: the loop condition
WithinTimeout(elapsed) == elapsed < LOCK_TIMEOUT

\* acquire, line 46: the stale-lock rule
\* Variants of the staleness test, each off by the stated amount.
IsStale_AtThreshold(lockAge) == lockAge >= LOCK_TIMEOUT

IsStale_Late(lockAge) == lockAge > 2 * LOCK_TIMEOUT

IsStale(lockAge) == lockAge > LOCK_TIMEOUT

\* acquire, line 54: wait a bit before retrying
Backoff(p) ==
  /\ pc' = [pc EXCEPT ![p] = "sleep"]
  /\ wakeAt' = [wakeAt EXCEPT ![p] = now + RETRY_DELAY]

\* An invocation of saveUserToken or removeUserToken arrives: it enters
\* withLock and acquire (lines 30-35): startTime = Date.now(), the first loop
\* test, and the call of writeFile(lockPath, pid, {flag: 'wx'}).
Call(p, k, i, t) ==
  /\ pc[p] = "idle"
  /\ \A q \in Procs : q < p => pc[q] # "idle"
  /\ op' = [op EXCEPT ![p] = [kind |-> k, id |-> i, token |-> t]]
  /\ startTime' = [startTime EXCEPT ![p] = now]
  /\ hist' = [hist EXCEPT ![p].staleAtCall =
                /\ lockFile.held /\ lockFile.owner = 0
                /\ now - lockFile.mtime > LOCK_TIMEOUT]
  /\ IF WithinTimeout(now - now)
       THEN pc' = [pc EXCEPT ![p] = "create"] /\ UNCHANGED result
       ELSE /\ pc' = [pc EXCEPT ![p] = "done"]
            /\ result' = [result EXCEPT ![p] = "timeout"]
  /\ UNCHANGED <<now, lockFile, tokensFile, tmpFile, wakeAt, acquired,
                 tokens, fd>>
  /\ StoreFrame

\* acquire, lines 35-39: writeFile with flag 'wx' creates the lock file, or
\* fails with EEXIST
Create(p) ==
  /\ pc[p] = "create"
  /\ IF lockFile.held
       THEN /\ pc' = [pc EXCEPT ![p] = "statLock"]
            /\ UNCHANGED <<lockFile, acquired, hist, startTime>>
       ELSE /\ lockFile' = [held |-> TRUE, owner |-> p, mtime |-> now]
            /\ acquired' = [acquired EXCEPT ![p] = TRUE]
            /\ hist' = [hist EXCEPT ![p].entered = TRUE]
            /\ startTime' = [startTime EXCEPT ![p] = 0]
            /\ pc' = [pc EXCEPT ![p] = "load"]
  /\ UNCHANGED <<now, tokensFile, tmpFile, op, wakeAt, tokens, fd, result>>
  /\ StoreFrame

\* acquire, lines 54, 32 and 61: the retry timer fires and the loop test is
\* made again.  When it fails acquire throws, and withLock's finally calls
\* release, which does nothing since acquired is false.
Wake(p) ==
  /\ pc[p] = "sleep"
  /\ now >= wakeAt[p]
  /\ IF WithinTimeout(now - startTime[p])
       THEN pc' = [pc EXCEPT ![p] = "create"] /\ UNCHANGED result
       ELSE /\ pc' = [pc EXCEPT ![p] = "done"]
            /\ result' = [result EXCEPT ![p] = "timeout"]
  /\ wakeAt' = [wakeAt EXCEPT ![p] = 0]
  /\ UNCHANGED <<now, lockFile, tokensFile, tmpFile, op, startTime, acquired,
                 tokens, fd, hist>>
  /\ StoreFrame

\* acquire, lines 42-46: readFile(lockPath), whose content is not used, then
\* lockAge = Date.now() - stat(lockPath).mtimeMs; ENOENT from either call is
\* caught (line 49)
StatLock(p) ==
  /\ pc[p] = "statLock"
  /\ IF lockFile.held /\ IsStale(now - lockFile.mtime)
       THEN pc' = [pc EXCEPT ![p] = "unlink"] /\ UNCHANGED wakeAt
       ELSE Backoff(p)
  /\ UNCHANGED <<now, lockFile, tokensFile, tmpFile, op, startTime,
                 acquired, tokens, fd, result, hist>>
  /\ StoreFrame

\* acquire, line 47: unlink(lockPath).catch(() => {})
UnlinkStale(p) ==
  /\ pc[p] = "unlink"
  /\ lockFile' = NoLock
  /\ hist' = [hist EXCEPT ![p].unlinked = @ \/ lockFile.held]
  /\ Backoff(p)
  /\ UNCHANGED <<now, tokensFile, tmpFile, op, startTime,
                 acquired, tokens, fd, result>>
  /\ StoreFrame

\* release (lines 64-76), called from withLock's finally
Release(p) ==
  /\ pc[p] = "release"
  /\ IF acquired[p]
       THEN /\ lockFile' = NoLock
            /\ hist' = [hist EXCEPT ![p].unlinked = @ \/ lockFile.held]
       ELSE UNCHANGED <<lockFile, hist>>
  /\ acquired' = [acquired EXCEPT ![p] = FALSE]
  /\ pc' = [pc EXCEPT ![p] = "done"]
  /\ UNCHANGED <<now, tokensFile, tmpFile, op, startTime, wakeAt,
                 tokens, fd, result>>
  /\ StoreFrame

----------------------------------------------------------------------------
(* The store: loadTokens, saveTokens and the exported operations *)

\* loadTokens (lines 98-109): does JSON.parse accept the file's content?
Parsable(f) == f.st # "partial"

\* loadTokens: the record map read; ENOENT gives {}
Loaded(f) == IF f.st = "data" THEN f.map ELSE EmptyMap

\* saveUserToken, lines 130-133: the githubToken field of the new record
\* A store that keeps the token as it was given.
StoredToken_Plain(token, sec, salt, iv) == <<token>>

StoredToken(token, sec, salt, iv) == encryptToken(token, sec, salt, iv)

\* saveUserToken, lines 131-136: the record put under discordUserId
WithRecord(m, i, blob) == [m EXCEPT ![i] = blob]

\* removeUserToken, line 164: delete tokens[discordUserId]
WithoutRecord(m, i) == [m EXCEPT ![i] = <<>>]

\* A descriptor's write from offset 0: what the file holds afterwards.  Bytes
\* another writer put there since the truncation stay behind the new content
\* when that content is shorter, and the file is not parsable then.
Written(f, m) ==
  IF f.st = "data" /\ MapSize(m) < MapSize(f.map) THEN PartialFile ELSE DataFile(m)

\* withLock with release in the try block after fn, not in a finally: a
\* callback that throws skips it.
Leave_NoFinally(p, r) ==
  /\ pc' = [pc EXCEPT ![p] = IF r = "error" THEN "done" ELSE "release"]
  /\ result' = [result EXCEPT ![p] = r]

\* withLock(fn): fn threw or returned; the finally block is next
Leave(p, r) ==
  /\ pc' = [pc EXCEPT ![p] = "release"]
  /\ result' = [result EXCEPT ![p] = r]

\* The callbacks of saveUserToken (lines 129-136) and removeUserToken (lines
\* 162-168) from loadTokens to the call of saveTokens.  The nonce that
\* encryptToken draws is fresh for each invocation.
LoadTokens(p) ==
  /\ pc[p] = "load"
  /\ IF ~Parsable(tokensFile)
       THEN Leave(p, "error") /\ UNCHANGED tokens
       ELSE IF op[p].kind = "save"
       THEN IF ~CanDeriveKey(TheSecret, cachedSalt)
            THEN Leave(p, "error") /\ UNCHANGED tokens
            ELSE /\ tokens' = [tokens EXCEPT ![p] =
                       WithRecord(Loaded(tokensFile), op[p].id,
                                  StoredToken(op[p].token, TheSecret, cachedSalt, p))]
                 /\ pc' = [pc EXCEPT ![p] = "openTmp"]
                 /\ UNCHANGED result
       ELSE IF Loaded(tokensFile)[op[p].id] # <<>>
            THEN /\ tokens' = [tokens EXCEPT ![p] =
                       WithoutRecord(Loaded(tokensFile), op[p].id)]
                 /\ pc' = [pc EXCEPT ![p] = "openTmp"]
                 /\ UNCHANGED result
            ELSE Leave(p, "false") /\ UNCHANGED tokens
  /\ UNCHANGED <<now, lockFile, tokensFile, tmpFile, op, startTime,
                 wakeAt, acquired, fd, hist>>
  /\ StoreFrame

\* saveTokens, line 116: writeFile(tempFile, ...) opens the file, creating or
\* truncating it
OpenTmp(p) ==
  /\ pc[p] = "openTmp"
  /\ tmpFile' = PartialFile
  /\ fd' = [fd EXCEPT ![p] = "tmp"]
  /\ pc' = [pc EXCEPT ![p] = "writeTmp"]
  /\ UNCHANGED <<now, lockFile, tokensFile, op, startTime, wakeAt,
                 acquired, tokens, result, hist>>
  /\ StoreFrame

\* saveTokens, line 116: writeFile writes the JSON text through the open
\* descriptor and closes it.  The descriptor names the file it opened, under
\* whatever name that file has by now.
WriteTmp(p) ==
  /\ pc[p] = "writeTmp"
  /\ tmpFile' = IF fd[p] = "tmp" THEN Written(tmpFile, tokens[p]) ELSE tmpFile
  /\ tokensFile' = IF fd[p] = "tokens" THEN Written(tokensFile, tokens[p])
                   ELSE tokensFile
  /\ fd' = [fd EXCEPT ![p] = "none"]
  /\ tokens' = [tokens EXCEPT ![p] = EmptyMap]
  /\ pc' = [pc EXCEPT ![p] = "rename"]
  /\ UNCHANGED <<now, lockFile, op, startTime, wakeAt, acquired,
                 result, hist>>
  /\ StoreFrame

\* saveTokens, lines 117-120: rename(tempFile, TOKENS_FILE), then chmod; the
\* callback returns (true for removeUserToken)
Rename(p) ==
  /\ pc[p] = "rename"
  /\ IF tmpFile.st = "absent"
       THEN /\ Leave(p, "error")
            /\ UNCHANGED <<tokensFile, tmpFile, fd, hist>>
       ELSE /\ tokensFile' = tmpFile
            /\ tmpFile' = AbsentFile
            /\ fd' = [q \in Procs |-> CASE fd[q] = "tmp" -> "tokens"
                                         [] fd[q] = "tokens" -> "orphan"
                                         [] OTHER -> fd[q]]
            /\ hist' = [hist EXCEPT ![p].wrote = TRUE]
            /\ Leave(p, IF op[p].kind = "save" THEN "ok" ELSE "true")
  /\ UNCHANGED <<now, lockFile, op, startTime, wakeAt, acquired,
                 tokens>>
  /\ StoreFrame

\* getUserToken without the try/catch around decryptToken.
GetUserToken_NoCatch(f, i, salt) ==
  IF ~Parsable(f) THEN [res |-> "throws", val |-> 0]
  ELSE IF Loaded(f)[i] = <<>> THEN [res |-> "null", val |-> 0]
  ELSE IF DecryptOk(Loaded(f)[i], TheSecret, salt)
       THEN [res |-> "token", val |-> decryptToken(Loaded(f)[i], TheSecret, salt)]
       ELSE [res |-> "throws", val |-> 0]

\* getUserToken (lines 141-153): what it answers on a store file
GetUserToken(f, i, salt) ==
  IF ~Parsable(f) THEN [res |-> "throws", val |-> 0]
  ELSE IF Loaded(f)[i] = <<>> THEN [res |-> "null", val |-> 0]
  ELSE IF DecryptOk(Loaded(f)[i], TheSecret, salt)
       THEN [res |-> "token", val |-> decryptToken(Loaded(f)[i], TheSecret, salt)]
       ELSE [res |-> "null", val |-> 0]

\* A call of getUserToken(i).  loadTokens is its one await and it takes no
\* lock, so the call is one step; got keeps its argument and its answer.
GetCall(i) ==
  /\ got' = [id |-> i, res |-> GetUserToken(tokensFile, i, cachedSalt).res,
                      val |-> GetUserToken(tokensFile, i, cachedSalt).val]
  /\ UNCHANGED <<now, lockFile, tokensFile, tmpFile, pc, op,
                 startTime, wakeAt, acquired, tokens, fd, result, hist>>
  /\ Frame

\* Time passes (while an invocation is still to come or under way).
Tick ==
  /\ now < MaxTime
  /\ \E p \in Procs : pc[p] # "done"
  /\ now' = now + TickMs
  /\ UNCHANGED <<lockFile, tokensFile, tmpFile, pc, op, startTime,
                 wakeAt, acquired, tokens, fd, result, hist>>
  /\ StoreFrame

Next ==
  \/ \E p \in Procs, i \in Ids : Call(p, "save", i, TokenOf(i))
  \/ \E p \in Procs, i \in Ids : Call(p, "remove", i, 0)
  \/ \E p \in Procs : Create(p)
  \/ \E p \in Procs : Wake(p)
  \/ \E p \in Procs : StatLock(p)
  \/ \E p \in Procs : UnlinkStale(p)
  \/ \E p \in Procs : LoadTokens(p)
  \/ \E p \in Procs : OpenTmp(p)
  \/ \E p \in Procs : WriteTmp(p)
  \/ \E p \in Procs : Rename(p)
  \/ \E p \in Procs : Release(p)
  \/ \E i \in Ids : GetCall(i)
  \/ Tick

Spec == Init /\ [][Next]_vars

----------------------------------------------------------------------------
(* encryption.ts: getOrCreateSalt and initEncryption *)

\* crypto.randomBytes(SALT_LENGTH): each call draws its own salt
RandomSalt(c) == Salt(3 + c)

\* Buffer.from(saltHex, 'hex') of what readFile returned
Decoded(f) == IF f.st = "data" THEN f.salt ELSE EmptySalt

\* getOrCreateSalt, line 24
ValidLength(b) == b.len = SALT_LENGTH

\* initEncryption -> getOrCreateSalt, lines 15-21: return the cached salt if
\* there is one, else call readFile(SALT_FILE)
InitEncryption(c) ==
  /\ spc[c] = "idle"
  /\ \A d \in SaltCalls : d < c => spc[d] # "idle"
  /\ spc' = [spc EXCEPT ![c] = IF cachedSalt.set THEN "done" ELSE "read"]
  /\ UNCHANGED <<cachedSalt, saltFile, saltHex>>
  /\ UNCHANGED <<storeVars, otherVars>>

\* getOrCreateSalt, lines 21-32: readFile completes.  The decoded buffer is
\* cached before its length is tested; on ENOENT a new salt is drawn and
\* cached, and mkdir is called.
ReadSalt(c) ==
  /\ spc[c] = "read"
  /\ IF saltFile.st = "absent"
       THEN /\ cachedSalt' = RandomSalt(c)
            /\ spc' = [spc EXCEPT ![c] = "mkdir"]
       ELSE /\ cachedSalt' = Decoded(saltFile)
            /\ spc' = [spc EXCEPT ![c] =
                         IF ValidLength(Decoded(saltFile)) THEN "done" ELSE "failed"]
  /\ UNCHANGED <<saltFile, saltHex>>
  /\ UNCHANGED <<storeVars, otherVars>>

\* getOrCreateSalt, lines 36-39: mkdir completes; writeFile is called with
\* cachedSalt.toString('hex'), read from the module variable at this moment
MkdirSalt(c) ==
  /\ spc[c] = "mkdir"
  /\ saltHex' = [saltHex EXCEPT ![c] = cachedSalt]
  /\ spc' = [spc EXCEPT ![c] = "open"]
  /\ UNCHANGED <<cachedSalt, saltFile>>
  /\ UNCHANGED <<storeVars, otherVars>>

\* line 39: writeFile opens the salt file, creating or truncating it
OpenSalt(c) ==
  /\ spc[c] = "open"
  /\ saltFile' = PartialSaltFile
  /\ spc' = [spc EXCEPT ![c] = "write"]
  /\ UNCHANGED <<cachedSalt, saltHex>>
  /\ UNCHANGED <<storeVars, otherVars>>

\* lines 39-42: writeFile writes the text and closes; the call returns
WriteSalt(c) ==
  /\ spc[c] = "write"
  /\ saltFile' = SaltFileOf(saltHex[c])
  /\ saltHex' = [saltHex EXCEPT ![c] = NoSalt]
  /\ spc' = [spc EXCEPT ![c] = "done"]
  /\ UNCHANGED cachedSalt
  /\ UNCHANGED <<storeVars, otherVars>>

\* The store at rest: no lock file, no store file, no invocation
StoreIdle == StoreInit /\ lockFile = NoLock /\ tokensFile = AbsentFile

SaltInit ==
  /\ StoreIdle
  /\ OtherIdle
  /\ SaltIdle
  /\ cachedSalt = NoSalt
  /\ saltFile \in {NoSaltFile, SaltFileOf(GoodSalt), SaltFileOf(ShortSalt)}

SaltNext ==
  \/ \E c \in SaltCalls : InitEncryption(c)
  \/ \E c \in SaltCalls : ReadSalt(c)
  \/ \E c \in SaltCalls : MkdirSalt(c)
  \/ \E c \in SaltCalls : OpenSalt(c)
  \/ \E c \in SaltCalls : WriteSalt(c)

SaltSpec == SaltInit /\ [][SaltNext]_vars

----------------------------------------------------------------------------
(* encryption.ts: encryptToken and decryptToken called on their own *)

\* process.env.ENCRYPTION_SECRET: 32 characters, longer, shorter, not set
Secrets == {TheSecret, [len |-> 40, val |-> 2], [len |-> 31, val |-> 3],
            [len |-> 0, val |-> 0]}

\* crypto.randomBytes(IV_LENGTH)
IVs == {1, 2}

\* Strings found in a store file, written under this salt or an earlier one
StoredBlobs ==
  {encryptToken(TokenOf(1), TheSecret, GoodSalt, 7),
   encryptToken(TokenOf(1), TheSecret, LostSalt, 7), <<7, 1>>}

\* encryptToken(x), lines 76-95
EncryptCall ==
  /\ cpc = "start"
  /\ IF CanDeriveKey(cin.secret, cachedSalt)
       THEN /\ \E iv \in IVs :
                 cblob' = encryptToken(cin.x, cin.secret, cachedSalt, iv)
            /\ cpc' = "encrypted"
       ELSE /\ cblob' = <<>>
            /\ cpc' = "encryptThrew"
  /\ UNCHANGED <<cin, plain>>
  /\ UNCHANGED <<storeVars, cachedSalt, saltVars, pathVars, uploadVars, moreVars>>

\* decryptToken(cblob), lines 97-121, of the string encryptToken has just
\* returned or of a stored one
DecryptCall ==
  /\ cpc \in {"encrypted", "stored"}
  /\ IF DecryptOk(cblob, cin.secret, cachedSalt)
       THEN /\ plain' = decryptToken(cblob, cin.secret, cachedSalt)
            /\ cpc' = IF cpc = "encrypted" THEN "roundTrip" ELSE "decrypted"
       ELSE /\ plain' = 0
            /\ cpc' = IF cpc = "encrypted" THEN "roundTripThrew"
                                           ELSE "decryptThrew"
  /\ UNCHANGED <<cin, cblob>>
  /\ UNCHANGED <<storeVars, cachedSalt, saltVars, pathVars, uploadVars, moreVars>>

CipherInit ==
  /\ StoreIdle
  /\ SaltIdle
  /\ PathIdle
  /\ UploadIdle
  /\ MoreIdle
  /\ cachedSalt \in {NoSalt, GoodSalt, LostSalt}
  /\ saltFile = IF cachedSalt.set THEN SaltFileOf(cachedSalt) ELSE NoSaltFile
  /\ cin \in [x : CipherStrings, secret : Secrets]
  /\ plain = 0
  /\ \/ cpc = "start" /\ cblob = <<>>
     \/ cpc = "stored" /\ cblob \in StoredBlobs /\ cin.x = EmptyString

CipherNext ==
  \/ EncryptCall
  \/ DecryptCall

CipherSpec == CipherInit /\ [][CipherNext]_vars

----------------------------------------------------------------------------
(* security.test.ts: isValidPath.  A string is the sequence of its         *)
(* character codes.                                                        *)

MaxPieces == 3

Ascii == [nul |-> 0, soh |-> 1, us |-> 31, pct |-> 37, dot |-> 46,
          slash |-> 47, zero |-> 48, nine |-> 57, colon |-> 58,
          upA |-> 65, upF |-> 70, upZ |-> 90, bslash |-> 92,
          loA |-> 97, loF |-> 102, loZ |-> 122]

IsHex(c) ==
  \/ c \in Ascii.zero..Ascii.nine
  \/ c \in Ascii.upA..Ascii.upF
  \/ c \in Ascii.loA..Ascii.loF

HexVal(c) ==
  IF c \in Ascii.zero..Ascii.nine THEN c - Ascii.zero
  ELSE IF c \in Ascii.upA..Ascii.upF THEN c - Ascii.upA + 10
  ELSE c - Ascii.loA + 10

\* The byte a %XY escape at the head of s stands for, -1 if there is none
EscapedByte(s) ==
  IF Len(s) >= 3 /\ s[1] = Ascii.pct /\ IsHex(s[2]) /\ IsHex(s[3])
  THEN 16 * HexVal(s[2]) + HexVal(s[3])
  ELSE -1

Rest(s, n) == SubSeq(s, n + 1, Len(s))

Thrown == [ok |-> FALSE, str |-> <<>>]

Cons(c, r) == IF r.ok THEN [ok |-> TRUE, str |-> <<c>> \o r.str] ELSE Thrown

\* decodeURIComponent (line 9): every %XY escape is replaced by the character
\* whose UTF-8 encoding the escaped bytes are; a '%' that starts no escape
\* and an escaped byte sequence that is not UTF-8 throw URIError.  (One- and
\* two-byte encodings; the paths drawn hold no escape of a byte above 0xDF.)
RECURSIVE decodeURIComponent(_)
decodeURIComponent(s) ==
  IF s = <<>> THEN [ok |-> TRUE, str |-> <<>>]
  ELSE IF s[1] # Ascii.pct THEN Cons(s[1], decodeURIComponent(Rest(s, 1)))
  ELSE LET b == EscapedByte(s)
           b2 == EscapedByte(Rest(s, 3))
       IN IF b \in 0..127 THEN Cons(b, decodeURIComponent(Rest(s, 3)))
          ELSE IF b \in 194..223 /\ b2 \in 128..191
               THEN Cons((b - 192) * 64 + (b2 - 128),
                         decodeURIComponent(Rest(s, 6)))
          ELSE Thrown

Lower(c) == IF c \in Ascii.upA..Ascii.upZ THEN c + (Ascii.loA - Ascii.upA) ELSE c

LowerCase(s) == [i \in 1..Len(s) |-> Lower(s[i])]

\* RegExp.test for a pattern that is a literal string
Contains(s, pat) ==
  \E i \in 1..(Len(s) - Len(pat) + 1) : SubSeq(s, i, i + Len(pat) - 1) = pat

\* The same with the flag i (pat in lower case)
ContainsI(s, pat) == Contains(LowerCase(s), pat)

\* Character sequences of the patterns
Dots == <<Ascii.dot, Ascii.dot>>

Pct2e == <<Ascii.pct, 50, 101>>

Pct252e == <<Ascii.pct, 50, 53, 50, 101>>

\* lines 14-22: does one of dangerousPatterns match s?
dangerousPatterns(s) ==
  \/ Contains(s, Dots)
  \/ ContainsI(s, Pct2e \o Pct2e)
  \/ ContainsI(s, Pct252e \o Pct252e)
  \/ ContainsI(s, <<Ascii.dot>> \o Pct2e)
  \/ ContainsI(s, Pct2e \o <<Ascii.dot>>)
  \/ Contains(s, <<Ascii.nul>>)
  \/ \E i \in 1..Len(s) : s[i] \in Ascii.nul..Ascii.us

\* line 30: /^[a-zA-Z]:/
DriveLetter(s) ==
  /\ Len(s) >= 2
  /\ s[1] \in (Ascii.upA..Ascii.upZ) \cup (Ascii.loA..Ascii.loZ)
  /\ s[2] = Ascii.colon

\* isValidPath, lines 4-39
isValidPath(p) ==
  /\ p.isString /\ p.chars # <<>>
  /\ decodeURIComponent(p.chars).ok
  /\ ~dangerousPatterns(p.chars)
  /\ ~dangerousPatterns(decodeURIComponent(p.chars).str)
  /\ ~(p.chars[1] = Ascii.slash \/ DriveLetter(p.chars))
  /\ ~Contains(p.chars, <<Ascii.bslash>>)

\* The pieces the paths tried are put together from
Pieces ==
  { <<Ascii.dot>>, <<Ascii.slash>>, <<Ascii.loA>>, <<Ascii.bslash>>,
    <<Ascii.nul>>, <<Ascii.soh>>, <<Ascii.pct>>, <<67, Ascii.colon>>,
    Pct2e, <<Ascii.pct, 50, 69>>, Pct252e,
    <<Ascii.pct, 53, 99>>, <<Ascii.pct, 48, 48>>, <<Ascii.pct, 50, 102>>,
    <<Ascii.pct, 102, 102>>, <<Ascii.pct, 99, 51, Ascii.pct, 97, 57>> }

RECURSIVE Concat(_)
Concat(ps) == IF ps = <<>> THEN <<>> ELSE Head(ps) \o Concat(Tail(ps))

PathInputs ==
  {NotAString} \cup
  {String(Concat(ps)) : ps \in UNION {[1..n -> Pieces] : n \in 0..MaxPieces}}

ValidatePath ==
  /\ valid = "none"
  /\ valid' = IF isValidPath(path) THEN "accepted" ELSE "rejected"
  /\ UNCHANGED path
  /\ UNCHANGED <<storeVars, cachedSalt, saltVars, cipherVars, uploadVars, moreVars>>

PathInit ==
  /\ StoreIdle
  /\ SaltIdle
  /\ cachedSalt = NoSalt /\ saltFile = NoSaltFile
  /\ CipherIdle
  /\ UploadIdle
  /\ MoreIdle
  /\ path \in PathInputs
  /\ valid = "none"

PathNext == ValidatePath

PathSpec == PathInit /\ [][PathNext]_vars

----------------------------------------------------------------------------
(* index.ts: uploadZipContentsToGitHub (the version that publishes in      *)
(* batches), findCommonPrefix and ensureRepoHasContent.  Entry names and   *)
(* remote paths are strings of character codes, as above.                  *)

BATCH_SIZE == 5

StartsWith(s, pre) == Len(s) >= Len(pre) /\ SubSeq(s, 1, Len(pre)) = pre

EndsWith(s, suf) ==
  Len(s) >= Len(suf) /\ SubSeq(s, Len(s) - Len(suf) + 1, Len(s)) = suf

Sl == <<Ascii.slash>>

\* s.split('/')
RECURSIVE Split(_)
Split(s) ==
  IF \A i \in 1..Len(s) : s[i] # Ascii.slash THEN <<s>>
  ELSE LET i == CHOOSE j \in 1..Len(s) :
                  s[j] = Ascii.slash /\ \A k \in 1..(j - 1) : s[k] # Ascii.slash
       IN <<SubSeq(s, 1, i - 1)>> \o Split(Rest(s, i))

\* parts.join('/')
RECURSIVE Join(_)
Join(parts) ==
  IF Len(parts) = 0 THEN <<>>
  ELSE IF Len(parts) = 1 THEN parts[1]
  ELSE parts[1] \o Sl \o Join(Tail(parts))

\* The order of Array.prototype.sort without a comparator: by code units
Before(s, t) ==
  \/ Len(s) < Len(t) /\ SubSeq(t, 1, Len(s)) = s
  \/ \E i \in 1..Len(s) :
       /\ i <= Len(t) /\ s[i] < t[i]
       /\ SubSeq(s, 1, i - 1) = SubSeq(t, 1, i - 1)

Range(q) == {q[i] : i \in 1..Len(q)}

\* sortedPaths[0] and sortedPaths[sortedPaths.length - 1]
SortedFirst(paths) ==
  CHOOSE s \in Range(paths) : \A t \in Range(paths) : s = t \/ Before(s, t)

SortedLast(paths) ==
  CHOOSE s \in Range(paths) : \A t \in Range(paths) : s = t \/ Before(t, s)

\* lines 1038-1041: the number of leading parts first and last agree on
RECURSIVE Agree(_, _)
Agree(first, last) ==
  IF first # <<>> /\ last # <<>> /\ Head(first) = Head(last)
  THEN 1 + Agree(Tail(first), Tail(last))
  ELSE 0

\* findCommonPrefix, lines 1027-1044
findCommonPrefix(paths) ==
  IF Len(paths) = 0 THEN <<>>
  ELSE IF Len(paths) = 1
       THEN IF Len(Split(paths[1])) > 1 THEN Split(paths[1])[1] \o Sl ELSE <<>>
  ELSE LET first == Split(SortedFirst(paths))
           last == Split(SortedLast(paths))
           i == Agree(first, last)
       IN IF i > 0 /\ first[1] = last[1]
          THEN Join(SubSeq(first, 1, i)) \o Sl
          ELSE <<>>

\* Words of the entry names
W == [proj |-> <<112, 114, 111, 106>>, src |-> <<115, 114, 99>>,
      a |-> <<97>>, b |-> <<98>>, c |-> <<99>>, d |-> <<100>>,
      e |-> <<101>>, f |-> <<102>>, g |-> <<103>>, h |-> <<104>>,
      up |-> <<117, 112>>,
      macosx |-> <<95, 95, 109, 97, 99, 111, 115, 120>>,
      MACOSX |-> <<95, 95, 77, 65, 67, 79, 83, 88>>,
      git |-> <<46, 103, 105, 116>>,
      dsstore |-> <<46, 100, 115, 95, 115, 116, 111, 114, 101>>,
      DSStore |-> <<46, 68, 83, 95, 83, 116, 111, 114, 101>>,
      thumbs |-> <<116, 104, 117, 109, 98, 115, 46, 100, 98>>,
      readme |-> <<82, 69, 65, 68, 77, 69, 46, 109, 100>>]

\* lines 1056-1067: does the filter keep the entry?
Kept(entry) ==
  LET name == LowerCase(entry.entryName)
  IN /\ ~entry.isDirectory
     /\ ~(StartsWith(name, W.macosx \o Sl) \/ Contains(name, Sl \o W.macosx \o Sl))
     /\ ~(StartsWith(name, W.git \o Sl) \/ Contains(name, Sl \o W.git \o Sl))
     /\ ~(StartsWith(name, W.dsstore) \/ Contains(name, Sl \o W.dsstore))
     /\ ~(name = W.thumbs \/ EndsWith(name, Sl \o W.thumbs))

\* zip.getEntries().filter(...): the numbers of the entries kept, in order
RECURSIVE Filter(_, _)
Filter(zip, n) ==
  IF n = 0 THEN <<>>
  ELSE Filter(zip, n - 1) \o (IF Kept(zip[n]) THEN <<n>> ELSE <<>>)

\* lines 1085-1089: the entry's name with the common prefix taken off
FileName(name, prefix) ==
  IF prefix # <<>> /\ StartsWith(name, prefix)
  THEN Rest(name, Len(prefix)) ELSE name

\* line 1094
FilePath(folder, fileName) ==
  IF folder # <<>> THEN folder \o Sl \o fileName ELSE fileName

\* The remote path of entry k
RemotePath(k) ==
  FilePath(folderPath, FileName(zipBuffer[k].entryName, commonPrefix))

\* zipEntries.slice(i, i + BATCH_SIZE): the entries of the batch that starts
\* at index i
Batch(i) ==
  {zipEntries[j] : j \in {j \in 1..Len(zipEntries) : i < j /\ j <= i + BATCH_SIZE}}

Settled(k) == est[k] \in {"ok", "failed"}

InFlight(k) == est[k] \in {"getContent", "put", "progress"}

\* Promise.race in place of Promise.all.
AllSettled_Race(ks) == ks = {} \/ \E k \in ks : Settled(k)

\* line 1082: await Promise.all(...) has resolved
AllSettled(ks) == \A k \in ks : Settled(k)

GetContentCall(k) == [api |-> "getContent", remote |-> RemotePath(k), entry |-> k,
                      marker |-> "none"]

PutCall(k, m) == [api |-> "createOrUpdateFileContents", remote |-> RemotePath(k),
                  entry |-> k, marker |-> m]

\* catch, lines 1125-1128
Failed(k, why) ==
  /\ est' = [est EXCEPT ![k] = "failed"]
  /\ failedFiles' = Append(failedFiles, [entry |-> k, reason |-> why])

Issue(call) == calls' = calls (+) SetToBag({call})

\* What the hosting API and Discord answer for an entry is open, except for
\* the entries of the large archive, whose answers are part of the input:
\* the answers, in order, that each fate stands for
Script ==
  [created |-> <<"notFound", "ok", "ok">>,
   updated |-> <<"found", "ok", "ok">>,
   forbidden |-> <<"error">>,
   conflict |-> <<"found", "conflict">>,
   refused |-> <<"notFound", "error">>,
   unreported |-> <<"notFound", "ok", "throws">>]

Answers(k, step, outcome) ==
  IF zipBuffer[k].fate = "any" THEN TRUE
  ELSE outcome = Script[zipBuffer[k].fate][step]

\* lines 1055-1075: the entries are filtered, the common prefix is computed
\* and ensureRepoHasContent calls getContent for the repository root
StartUpload ==
  /\ upc = "start"
  /\ LET kept == Filter(zipBuffer, Len(zipBuffer))
     IN /\ zipEntries' = kept
        /\ commonPrefix' =
             findCommonPrefix([j \in 1..Len(kept) |-> zipBuffer[kept[j]].entryName])
  /\ Issue([api |-> "getContent", remote |-> <<>>, entry |-> 0, marker |-> "none"])
  /\ upc' = "bootstrapGet"
  /\ UNCHANGED <<zipBuffer, folderPath, bi, est, sha, uploadedFiles,
                 failedFiles, readData>>
  /\ UNCHANGED <<storeVars, cachedSalt, saltVars, cipherVars, pathVars, moreVars>>

\* ensureRepoHasContent, lines 984-1002: getContent settles.  On 404 the
\* README is written; every other error is swallowed.
BootstrapGet(outcome) ==
  /\ upc = "bootstrapGet"
  /\ IF outcome = "notFound"
       THEN /\ Issue([api |-> "createOrUpdateFileContents", remote |-> W.readme,
                      entry |-> 0, marker |-> "none"])
            /\ upc' = "bootstrapPut"
       ELSE /\ upc' = "batch"
            /\ UNCHANGED calls
  /\ UNCHANGED <<zipBuffer, folderPath, zipEntries, commonPrefix, bi, est, sha,
                 uploadedFiles, failedFiles, readData>>
  /\ UNCHANGED <<storeVars, cachedSalt, saltVars, cipherVars, pathVars, moreVars>>

\* lines 996-1004: the write of the README settles; its error is not caught
BootstrapPut(outcome) ==
  /\ upc = "bootstrapPut"
  /\ upc' = IF outcome = "ok" THEN "batch" ELSE "threw"
  /\ UNCHANGED <<zipBuffer, folderPath, zipEntries, commonPrefix, bi, est, sha,
                 uploadedFiles, failedFiles, calls, readData>>
  /\ UNCHANGED <<storeVars, cachedSalt, saltVars, cipherVars, pathVars, moreVars>>

\* The batches are started without awaiting ensureRepoHasContent.
BootstrapCompleted_NoAwait == upc \in {"bootstrapGet", "bootstrapPut", "batch"}

\* line 1075: await ensureRepoHasContent(...) has resolved
BootstrapCompleted == upc = "batch"

\* The entries of a batch whose getData throws, in order
RECURSIVE Unreadable(_, _)
Unreadable(i, j) ==
  IF j <= i THEN <<>>
  ELSE Unreadable(i, j - 1) \o
       (IF j <= Len(zipEntries) /\ zipBuffer[zipEntries[j]].corrupt
        THEN <<[entry |-> zipEntries[j], reason |-> "getData"]>> ELSE <<>>)

\* lines 1079-1102: the loop test holds and the callbacks of the next batch
\* run, each up to its first await: getData is called and, unless it throws,
\* getContent for the remote path
NextBatch ==
  /\ BootstrapCompleted
  /\ AllSettled(Batch(bi - BATCH_SIZE))
  /\ bi < Len(zipEntries)
  /\ readData' = readData \cup Batch(bi)
  /\ est' = [k \in DOMAIN est |->
               IF k \notin Batch(bi) THEN est[k]
               ELSE IF zipBuffer[k].corrupt THEN "failed" ELSE "getContent"]
  /\ failedFiles' = failedFiles \o Unreadable(bi, bi + BATCH_SIZE)
  /\ calls' = calls (+) SetToBag({GetContentCall(k) :
                                   k \in {k \in Batch(bi) : ~zipBuffer[k].corrupt}})
  /\ bi' = bi + BATCH_SIZE
  /\ UNCHANGED <<zipBuffer, folderPath, upc, zipEntries, commonPrefix, sha,
                 uploadedFiles>>
  /\ UNCHANGED <<storeVars, cachedSalt, saltVars, cipherVars, pathVars, moreVars>>

\* The marker of a file that is there is never passed on.
existingFileSha_Dropped(outcome) == "none"

\* lines 1096-1109: sha after the read of the remote file: the marker of the
\* file found; undefined after a 404
existingFileSha(outcome) == IF outcome = "found" THEN "sha" ELSE "none"

\* lines 1098-1118: getContent settles; unless it failed with another error
\* than 404, createOrUpdateFileContents is called, with the marker if the
\* file was found
EntryGet(k, outcome) ==
  /\ k \in DOMAIN est /\ est[k] = "getContent"
  /\ Answers(k, 1, outcome)
  /\ IF outcome = "error"
       THEN Failed(k, "getContent") /\ UNCHANGED <<sha, calls>>
       ELSE /\ sha' = [sha EXCEPT ![k] = existingFileSha(outcome)]
            /\ Issue(PutCall(k, sha'[k]))
            /\ est' = [est EXCEPT ![k] = "put"]
            /\ UNCHANGED failedFiles
  /\ UNCHANGED <<zipBuffer, folderPath, upc, zipEntries, commonPrefix, bi,
                 uploadedFiles, readData>>
  /\ UNCHANGED <<storeVars, cachedSalt, saltVars, cipherVars, pathVars, moreVars>>

\* lines 1111-1123: createOrUpdateFileContents settles; on success the
\* counter goes up and progressCallback is called; every error, a version
\* conflict (409) like any other, goes to the catch
EntryPut(k, outcome) ==
  /\ k \in DOMAIN est /\ est[k] = "put"
  /\ Answers(k, 2, outcome)
  /\ IF outcome = "ok"
       THEN /\ uploadedFiles' = uploadedFiles + 1
            /\ est' = [est EXCEPT ![k] = "progress"]
            /\ UNCHANGED failedFiles
       ELSE Failed(k, outcome) /\ UNCHANGED uploadedFiles
  /\ UNCHANGED <<zipBuffer, folderPath, upc, zipEntries, commonPrefix, bi, sha,
                 calls, readData>>
  /\ UNCHANGED <<storeVars, cachedSalt, saltVars, cipherVars, pathVars, moreVars>>

\* lines 1122-1128: progressCallback (an edit of the Discord reply) settles
EntryProgress(k, outcome) ==
  /\ k \in DOMAIN est /\ est[k] = "progress"
  /\ Answers(k, 3, outcome)
  /\ IF outcome = "ok"
       THEN est' = [est EXCEPT ![k] = "ok"] /\ UNCHANGED failedFiles
       ELSE Failed(k, "progress")
  /\ UNCHANGED <<zipBuffer, folderPath, upc, zipEntries, commonPrefix, bi, sha,
                 uploadedFiles, calls, readData>>
  /\ UNCHANGED <<storeVars, cachedSalt, saltVars, cipherVars, pathVars, moreVars>>

\* lines 1079 and 1133: the loop test fails; the outcome is returned
ReturnOutcome ==
  /\ upc = "batch"
  /\ AllSettled(Batch(bi - BATCH_SIZE))
  /\ bi >= Len(zipEntries)
  /\ upc' = "done"
  /\ UNCHANGED <<zipBuffer, folderPath, zipEntries, commonPrefix, bi, est, sha,
                 uploadedFiles, failedFiles, calls, readData>>
  /\ UNCHANGED <<storeVars, cachedSalt, saltVars, cipherVars, pathVars, moreVars>>

\* An entry of an archive: its name, its uncompressed and compressed size
\* (MiB), and whether its data fails to inflate
Entry(name, size, csize, bad, fate) ==
  [entryName |-> name, isDirectory |-> EndsWith(name, Sl), size |-> size,
   compressedSize |-> csize, corrupt |-> bad, fate |-> fate]

File(name) == Entry(name, 1, 1, FALSE, "any")

\* The uploads tried: a target folder and an archive
Uploads ==
  { [folder |-> <<>>, zip |-> <<>>],
    [folder |-> <<>>, zip |-> <<File(W.proj \o Sl \o W.a), File(W.proj \o Sl \o W.b)>>],
    [folder |-> W.up, zip |-> <<File(W.proj \o Sl \o W.src \o Sl \o W.a),
                               File(W.proj \o Sl \o W.src \o Sl \o W.b)>>],
    [folder |-> <<>>, zip |-> <<File(W.proj \o Sl \o W.src \o Sl \o W.a)>>],
    [folder |-> W.up, zip |-> <<File(Dots \o Sl \o W.a), File(W.b)>>],
    [folder |-> <<>>, zip |-> <<File(Sl \o W.a), File(W.a \o <<Ascii.bslash>> \o W.b)>>],
    [folder |-> <<>>, zip |-> <<Entry(W.a, 600, 1, FALSE, "any"), File(W.b)>>],
    [folder |-> <<>>, zip |-> <<File(W.proj \o Sl), File(W.proj \o Sl \o W.a),
                               File(W.MACOSX \o Sl \o W.a),
                               File(W.proj \o Sl \o W.git \o Sl \o W.b),
                               File(W.proj \o Sl \o W.DSStore),
                               File(W.thumbs)>>],
    [folder |-> <<>>, zip |-> <<File(W.a), Entry(W.b, 1, 1, TRUE, "any")>>],
    [folder |-> <<>>, zip |-> <<File(W.a), File(W.a \o Sl \o W.b)>>],
    [folder |-> <<>>, zip |-> <<Entry(W.a, 1, 1, FALSE, "created"),
                               Entry(W.b, 1, 1, FALSE, "updated"),
                               Entry(W.c, 1, 1, FALSE, "conflict"),
                               Entry(W.d, 1, 1, FALSE, "forbidden"),
                               Entry(W.e, 1, 1, FALSE, "unreported"),
                               Entry(W.f, 1, 1, FALSE, "refused"),
                               Entry(W.g, 1, 1, FALSE, "forbidden"),
                               Entry(W.h, 1, 1, FALSE, "created"),
                               Entry(W.proj, 1, 1, FALSE, "conflict"),
                               Entry(W.src, 1, 1, FALSE, "updated")>>] }

UploadInit ==
  /\ StoreIdle
  /\ SaltIdle
  /\ cachedSalt = NoSalt /\ saltFile = NoSaltFile
  /\ CipherIdle
  /\ PathIdle
  /\ MoreIdle
  /\ \E u \in Uploads :
       /\ zipBuffer = u.zip
       /\ folderPath = u.folder
       /\ est = [k \in 1..Len(u.zip) |-> "idle"]
       /\ sha = [k \in 1..Len(u.zip) |-> "none"]
  /\ upc = "start"
  /\ zipEntries = <<>>
  /\ commonPrefix = <<>>
  /\ bi = 0
  /\ uploadedFiles = 0
  /\ failedFiles = <<>>
  /\ calls = EmptyBag
  /\ readData = {}

UploadNext ==
  \/ StartUpload
  \/ \E o \in {"found", "notFound", "error"} : BootstrapGet(o)
  \/ \E o \in {"ok", "error"} : BootstrapPut(o)
  \/ NextBatch
  \/ \E k \in 1..Len(zipBuffer), o \in {"found", "notFound", "error"} : EntryGet(k, o)
  \/ \E k \in 1..Len(zipBuffer), o \in {"ok", "conflict", "error"} : EntryPut(k, o)
  \/ \E k \in 1..Len(zipBuffer), o \in {"ok", "throws"} : EntryProgress(k, o)
  \/ ReturnOutcome

UploadSpec == UploadInit /\ [][UploadNext]_vars

----------------------------------------------------------------------------
(* security.test.ts: checkRateLimit.  Times are in milliseconds; Date.now() *)
(* never goes back.                                                        *)

RATE_LIMIT_WINDOW == 60000
MAX_COMMANDS_PER_WINDOW == 10
COOLDOWN_BETWEEN_COMMANDS == 2000

MsPerSecond == 1000

\* The latest time a check is made at
MaxClock == 64000

\* The latest time an identity other than the watched one makes a check at
OtherUntil == 2000

\* How long after the check before it a check is made
Gaps == {0, 1000, 2000, 42000}

\* retryAfter of a result that has none
Undefined == -1

\* Math.ceil(x / d)
Ceil(x, d) == -((-x) \div d)

\* The cooldown is tested before the window.
WindowExpired_AfterCooldown(nowMs, entry) ==
  nowMs > entry.resetTime /\ nowMs - entry.lastCommand >= COOLDOWN_BETWEEN_COMMANDS

\* line 183
WindowExpired(nowMs, entry) == nowMs > entry.resetTime

\* A denied check is counted like an allowed one.
Denied_Counted(entry, retryAfter) ==
  [entry |-> [entry EXCEPT !.commandCount = @ + 1], allowed |-> FALSE,
   retryAfter |-> retryAfter]

\* lines 192-195 and 200: a denial returns without a write to the entry
Denied(entry, retryAfter) ==
  [entry |-> entry, allowed |-> FALSE, retryAfter |-> retryAfter]

\* The window takes one command more than MAX_COMMANDS_PER_WINDOW.
CapReached_OneMore(entry) == entry.commandCount > MAX_COMMANDS_PER_WINDOW

\* line 198
CapReached(entry) == entry.commandCount >= MAX_COMMANDS_PER_WINDOW

\* checkRateLimit, lines 170-206: the entry stored afterwards and the result
checkRateLimit(entry, nowMs) ==
  IF entry = NoEntry
    THEN [entry |-> [lastCommand |-> nowMs, commandCount |-> 1,
                     resetTime |-> nowMs + RATE_LIMIT_WINDOW],
          allowed |-> TRUE, retryAfter |-> Undefined]
  ELSE IF WindowExpired(nowMs, entry)
    THEN [entry |-> [lastCommand |-> nowMs, commandCount |-> 1,
                     resetTime |-> nowMs + RATE_LIMIT_WINDOW],
          allowed |-> TRUE, retryAfter |-> Undefined]
  ELSE IF nowMs - entry.lastCommand < COOLDOWN_BETWEEN_COMMANDS
    THEN Denied(entry, Ceil(COOLDOWN_BETWEEN_COMMANDS - (nowMs - entry.lastCommand),
                            MsPerSecond))
  ELSE IF CapReached(entry)
    THEN Denied(entry, Ceil(entry.resetTime - nowMs, MsPerSecond))
  ELSE [entry |-> [entry EXCEPT !.commandCount = @ + 1, !.lastCommand = nowMs],
        allowed |-> TRUE, retryAfter |-> Undefined]

\* The identity whose allowed commands are counted
Watched == 1

\* The allowed commands of the watched identity are counted from one of
\* them on, for RATE_LIMIT_WINDOW milliseconds
Count(userId, nowMs, allowed, marking) ==
  IF userId # Watched \/ ~allowed THEN seen
  ELSE IF seen = Unmarked
    THEN IF marking THEN [mark |-> nowMs, count |-> 1] ELSE seen
  ELSE IF nowMs < seen.mark + RATE_LIMIT_WINDOW
    THEN [seen EXCEPT !.count = @ + 1]
  ELSE seen

\* One call of checkRateLimit(userId) at time nowMs (Date.now())
CheckRateLimit(userId, nowMs, marking) ==
  /\ nowMs >= clock
  /\ nowMs <= (IF userId = Watched THEN MaxClock ELSE OtherUntil)
  /\ LET r == checkRateLimit(rateLimitMap[userId], nowMs)
     IN /\ rateLimitMap' = [rateLimitMap EXCEPT ![userId] = r.entry]
        /\ limited' = [userId |-> userId, before |-> rateLimitMap[userId],
                       allowed |-> r.allowed, retryAfter |-> r.retryAfter]
        /\ seen' = Count(userId, nowMs, r.allowed, marking)
  /\ clock' = nowMs
  /\ UNCHANGED <<storeVars, cachedSalt, saltVars, cipherVars, pathVars, uploadVars>>
  /\ UNCHANGED <<downloadVars, commandVars, sanitizeVars>>

\* Nothing but the part named is running
Only(part) ==
  /\ SaltIdle
  /\ CipherIdle
  /\ PathIdle
  /\ UploadIdle
  /\ IF part = "rate" THEN TRUE ELSE RateIdle
  /\ IF part = "download" THEN TRUE ELSE DownloadIdle
  /\ IF part = "command" THEN TRUE
     ELSE /\ StoreIdle /\ CommandIdle
          /\ cachedSalt = NoSalt /\ saltFile = NoSaltFile
  /\ IF part = "sanitize" THEN TRUE ELSE SanitizeIdle

RateInit ==
  /\ Only("rate")
  /\ RateIdle

RateNext ==
  \E userId \in Users, gap \in Gaps, marking \in BOOLEAN :
    CheckRateLimit(userId, clock + gap, marking)

RateSpec == RateInit /\ [][RateNext]_vars

----------------------------------------------------------------------------
(* index.ts: downloadFile.  One action is one event of the request or of   *)
(* the response; time passes between events.                               *)

MiB == 1024 * 1024

\* The documented limits of a download
MAX_FILE_SIZE == 50 * 1024 * 1024
DOWNLOAD_TIMEOUT == 60000

\* The sizes of the chunks a server sends
ChunkSizes == {5 * MiB, 25 * MiB}

\* The most a server sends, in MiB
MaxSent == 80

\* Time passes in steps of PassMs, up to MaxElapsed
PassMs == 10000
MaxElapsed == 70000

\* What is left alone by downloadFile
DownloadFrame ==
  /\ UNCHANGED <<storeVars, cachedSalt, saltVars, cipherVars, pathVars, uploadVars>>
  /\ UNCHANGED <<rateVars, commandVars, sanitizeVars>>

\* lines 957-960: protocol.get(url, ...) is called
Request ==
  /\ dpc = "start"
  /\ dpc' = "requested"
  /\ UNCHANGED <<totalSize, waited, settled>>
  /\ DownloadFrame

\* lines 960-969: the response arrives; with a status other than 200 the
\* promise is rejected, else the listeners are attached
Response(statusCode) ==
  /\ dpc = "requested"
  /\ IF statusCode # 200
       THEN /\ dpc' = "closed"
            /\ settled' = [how |-> "rejected", error |-> "status", size |-> 0]
       ELSE /\ dpc' = "receiving"
            /\ UNCHANGED settled
  /\ UNCHANGED <<totalSize, waited>>
  /\ DownloadFrame

\* line 967: a chunk arrives and is pushed
Data(len) ==
  /\ dpc = "receiving"
  /\ totalSize + len <= MaxSent * MiB
  /\ totalSize' = totalSize + len
  /\ UNCHANGED <<dpc, waited, settled>>
  /\ DownloadFrame

\* line 968: the response ends; the promise resolves with the chunks joined
End ==
  /\ dpc = "receiving"
  /\ dpc' = "closed"
  /\ settled' = [how |-> "resolved", error |-> "none", size |-> totalSize]
  /\ UNCHANGED <<totalSize, waited>>
  /\ DownloadFrame

\* lines 969 and 971: the response or the request emits an error
Failure ==
  /\ dpc \in {"requested", "receiving"}
  /\ dpc' = "closed"
  /\ settled' = [how |-> "rejected", error |-> "error", size |-> 0]
  /\ UNCHANGED <<totalSize, waited>>
  /\ DownloadFrame

\* Time passes while the server is silent; no timer is set by downloadFile
Pass ==
  /\ dpc \in {"requested", "receiving"}
  /\ waited + PassMs <= MaxElapsed
  /\ waited' = waited + PassMs
  /\ UNCHANGED <<dpc, totalSize, settled>>
  /\ DownloadFrame

DownloadInit ==
  /\ Only("download")
  /\ dpc = "start"
  /\ totalSize = 0
  /\ waited = 0
  /\ settled = Pending

DownloadNext ==
  \/ Request
  \/ \E statusCode \in {200, 404} : Response(statusCode)
  \/ \E len \in ChunkSizes : Data(len)
  \/ End
  \/ Failure
  \/ Pass

DownloadSpec == DownloadInit /\ [][DownloadNext]_vars

----------------------------------------------------------------------------
(* index.ts: handleLoginCommand, handleLogoutCommand, handleWhoAmICommand.  *)
(* The commands are handled one after the other; a step is one await of    *)
(* the handler, and a store operation is taken as a whole.                 *)

\* The commands handled in a run
MaxCommands == 3

\* What GitHub knows of the token given to /login: not a token, a token
\* without the repo scope, a token with it
Grants == {"invalid", "noScope", "repo"}

FirstStep == [login |-> "verify", logout |-> "hasToken", whoami |-> "getUserData"]

\* What the command handlers leave alone, the store file apart
CommandFrame ==
  /\ UNCHANGED <<now, lockFile, tmpFile, pc, op, startTime, wakeAt, acquired,
                 tokens, fd, result, got, hist, freshAll>>
  /\ UNCHANGED <<cachedSalt, saltVars, cipherVars, pathVars, uploadVars>>
  /\ UNCHANGED <<rateVars, downloadVars, sanitizeVars>>

Answer(text) ==
  /\ reply' = text
  /\ cmd' = [cmd EXCEPT !.step = "done"]

\* An interaction arrives and its handler is called
Arrive(kind, user, grant) ==
  /\ cmd.step \in {"idle", "done"}
  /\ cmd.n < MaxCommands
  /\ (kind = "login") = (grant \in Grants)
  /\ cmd' = [kind |-> kind, user |-> user, grant |-> grant,
             step |-> FirstStep[kind], n |-> cmd.n + 1]
  /\ reply' = "none"
  /\ atStart' = tokensFile
  /\ UNCHANGED tokensFile
  /\ CommandFrame

\* verifyGitHubToken, lines 946-954: users.getAuthenticated answers for every
\* token GitHub knows
verifyGitHubToken(grant) == grant # "invalid"

\* handleLoginCommand, lines 1417-1426
VerifyToken ==
  /\ cmd.step = "verify"
  /\ IF verifyGitHubToken(cmd.grant)
       THEN cmd' = [cmd EXCEPT !.step = "save"] /\ UNCHANGED reply
       ELSE Answer("invalidToken")
  /\ UNCHANGED <<tokensFile, atStart>>
  /\ CommandFrame

\* handleLoginCommand, lines 1428-1441: saveUserToken returns, or throws
\* (the lock timed out, or no key could be derived)
SaveToken(locked, iv) ==
  /\ cmd.step = "save"
  /\ IF locked \/ ~CanDeriveKey(TheSecret, cachedSalt)
       THEN Answer("saveError") /\ UNCHANGED tokensFile
       ELSE /\ tokensFile' =
                 DataFile(WithRecord(Loaded(tokensFile), cmd.user,
                                     StoredToken(TokenOf(cmd.user), TheSecret,
                                                 cachedSalt, iv)))
            /\ Answer("loggedIn")
  /\ UNCHANGED atStart
  /\ CommandFrame

\* hasUserToken, part_001 lines 172-175
hasUserToken(f, i, salt) == GetUserToken(f, i, salt).res = "token"

\* handleLogoutCommand, lines 1446-1454
HasToken ==
  /\ cmd.step = "hasToken"
  /\ IF hasUserToken(tokensFile, cmd.user, cachedSalt)
       THEN cmd' = [cmd EXCEPT !.step = "remove"] /\ UNCHANGED reply
       ELSE Answer("notAuthenticated")
  /\ UNCHANGED <<tokensFile, atStart>>
  /\ CommandFrame

\* handleLogoutCommand, lines 1456-1467: removeUserToken returns true or
\* false, or throws (the lock timed out; the handler has no catch)
RemoveToken(locked) ==
  /\ cmd.step = "remove"
  /\ IF locked THEN Answer("threw") /\ UNCHANGED tokensFile
     ELSE IF Loaded(tokensFile)[cmd.user] # <<>>
       THEN /\ tokensFile' = DataFile(WithoutRecord(Loaded(tokensFile), cmd.user))
            /\ Answer("loggedOut")
       ELSE Answer("removeError") /\ UNCHANGED tokensFile
  /\ UNCHANGED atStart
  /\ CommandFrame

\* handleWhoAmICommand, lines 1473-1481: what it answers on a store file
WhoAmI(f, i) ==
  IF Loaded(f)[i] # <<>> THEN "accountInfo" ELSE "notAuthenticated"

\* handleWhoAmICommand, lines 1473-1490
GetUserData ==
  /\ cmd.step = "getUserData"
  /\ Answer(WhoAmI(tokensFile, cmd.user))
  /\ UNCHANGED <<tokensFile, atStart>>
  /\ CommandFrame

CommandInit ==
  /\ Only("command")
  /\ StoreInit
  /\ lockFile = NoLock
  /\ \/ cachedSalt = GoodSalt /\ saltFile = SaltFileOf(GoodSalt)
     \/ cachedSalt = NoSalt /\ saltFile = NoSaltFile
  /\ CommandIdle

CommandNext ==
  \/ \E kind \in {"login", "logout", "whoami"}, user \in Ids,
        grant \in Grants \cup {"none"} : Arrive(kind, user, grant)
  \/ VerifyToken
  \/ \E locked \in BOOLEAN, iv \in IVs : SaveToken(locked, iv)
  \/ HasToken
  \/ \E locked \in BOOLEAN : RemoveToken(locked)
  \/ GetUserData

CommandSpec == CommandInit /\ [][CommandNext]_vars

----------------------------------------------------------------------------
(* security.test.ts: sanitizeErrorMessage.  Messages are strings of        *)
(* character codes; each replace is computed as String.prototype.replace   *)
(* with a global pattern does: left to right, matches do not overlap.      *)

\* The pieces a message is put together from, at most
MaxParts == 3

\* The least number of characters of a token after its prefix
TokenBody == 36

\* message.length above which the message is cut
MaxMessage == 500

\* The literal strings of the function and of the messages
Lit ==
  [ghp |-> <<103, 104, 112, 95>>,
   gho |-> <<103, 104, 111, 95>>,
   ghs |-> <<103, 104, 115, 95>>,
   gh |-> <<103, 104>>,
   redactedToken |-> <<91, 82, 69, 68, 65, 67, 84, 69, 68, 95, 84, 79, 75, 69, 78, 93>>,
   secret |-> <<115, 101, 99, 114, 101, 116>>,
   key |-> <<107, 101, 121>>,
   password |-> <<112, 97, 115, 115, 119, 111, 114, 100>>,
   redacted |-> <<61, 91, 82, 69, 68, 65, 67, 84, 69, 68, 93>>,
   pathMark |-> <<91, 80, 65, 84, 72, 93>>,
   home |-> <<47, 104, 111, 109, 101, 47>>,
   users |-> <<67, 58, 92, 85, 115, 101, 114, 115, 92>>,
   unknown |-> <<85, 110, 107, 110, 111, 119, 110, 32, 101, 114, 114, 111, 114>>,
   error |-> <<69, 114, 114, 111, 114>>,
   truncated |-> <<46, 46, 46, 32, 91, 116, 114, 117, 110, 99, 97, 116, 101, 100, 93>>,
   failed |-> <<70, 97, 105, 108, 101, 100, 32, 119, 105, 116, 104, 32, 116, 111, 107, 101, 110, 32>>]

IsAlnum(c) ==
  \/ c \in Ascii.zero..Ascii.nine
  \/ c \in Ascii.upA..Ascii.upZ
  \/ c \in Ascii.loA..Ascii.loZ

\* Does character c belong to the class: [a-zA-Z0-9], [A-Za-z0-9_-], \s, [^\s]
InClass(class, c) ==
  CASE class = "alnum" -> IsAlnum(c)
    [] class = "word" -> IsAlnum(c) \/ c = 95 \/ c = 45
    [] class = "space" -> c \in {9, 10, 11, 12, 13, 32}
    [] class = "nonspace" -> c \notin {9, 10, 11, 12, 13, 32}

\* The length of the longest run of characters of the class that begins at i
RECURSIVE Run(_, _, _)
Run(class, s, i) ==
  IF i <= Len(s) /\ InClass(class, s[i]) THEN 1 + Run(class, s, i + 1) ELSE 0

\* The literal is at position i of s
At(s, i, lit) == i + Len(lit) - 1 <= Len(s) /\ SubSeq(s, i, i + Len(lit) - 1) = lit

\* The patterns of lines 47-53, in order
Rules == <<"github", "discord", "secret", "key", "password", "home", "users">>

Replacement ==
  [github |-> Lit.redactedToken, discord |-> Lit.redactedToken,
   secret |-> Lit.secret \o Lit.redacted, key |-> Lit.key \o Lit.redacted,
   password |-> Lit.password \o Lit.redacted,
   home |-> Lit.pathMark, users |-> Lit.pathMark]

\* word[=:]\s*[^\s]+ with the flag i, at position i: the length matched
Assigned(word, s, i) ==
  LET j == i + Len(word)
      w == Run("space", s, j + 1)
      n == Run("nonspace", s, j + 1 + w)
  IN IF /\ At(LowerCase(s), i, word)
        /\ j <= Len(s) /\ s[j] \in {61, Ascii.colon}
        /\ n >= 1
     THEN Len(word) + 1 + w + n ELSE 0

\* A literal followed by [^\s]+ at position i: the length matched
Located(lit, s, i) ==
  IF At(s, i, lit) /\ Run("nonspace", s, i + Len(lit)) >= 1
  THEN Len(lit) + Run("nonspace", s, i + Len(lit)) ELSE 0

\* gh, any of the letters, _ and TokenBody or more of [a-zA-Z0-9]
Prefixed(letters, s, i) ==
  IF /\ At(s, i, Lit.gh)
     /\ i + 3 <= Len(s) /\ s[i + 2] \in letters /\ s[i + 3] = 95
     /\ Run("alnum", s, i + 4) >= TokenBody
  THEN 4 + Run("alnum", s, i + 4) ELSE 0

\* The letters after gh in the prefixes of GitHub tokens: ghp_, gho_, ghs_
GitHubLetters == {112, 111, 115}

\* line 47: the letters of gh[ps]_
TokenLetters == {112, 115}

\* The length of the match of a rule's pattern that begins at i, 0 for none
MatchLen(rule, s, i) ==
  CASE rule = "github" -> Prefixed(TokenLetters, s, i)
    [] rule = "discord" ->
         IF /\ Run("word", s, i) = 24 /\ At(s, i + 24, <<Ascii.dot>>)
            /\ Run("word", s, i + 25) = 6 /\ At(s, i + 31, <<Ascii.dot>>)
            /\ Run("word", s, i + 32) >= 27
         THEN 32 + Run("word", s, i + 32) ELSE 0
    [] rule = "secret" -> Assigned(Lit.secret, s, i)
    [] rule = "key" -> Assigned(Lit.key, s, i)
    [] rule = "password" -> Assigned(Lit.password, s, i)
    [] rule = "home" -> Located(Lit.home, s, i)
    [] rule = "users" -> Located(Lit.users, s, i)

\* message.replace(pattern, replacement), from position i on
RECURSIVE Replace(_, _, _)
Replace(rule, s, i) ==
  IF i > Len(s) THEN <<>>
  ELSE IF MatchLen(rule, s, i) > 0
    THEN Replacement[rule] \o Replace(rule, s, i + MatchLen(rule, s, i))
  ELSE <<s[i]>> \o Replace(rule, s, i + 1)

\* lines 47-53: the replaces, one after the other
RECURSIVE Redact(_, _)
Redact(s, k) ==
  IF k = 0 THEN s ELSE Replace(Rules[k], Redact(s, k - 1), 1)

\* sanitizeErrorMessage, lines 42-60
sanitizeErrorMessage(error) ==
  IF ~error.given THEN Lit.unknown
  ELSE LET message == Redact(IF error.message # <<>> THEN error.message
                             ELSE Lit.error, Len(Rules))
       IN IF Len(message) > MaxMessage
          THEN SubSeq(message, 1, MaxMessage) \o Lit.truncated
          ELSE message

\* TokenBody - 1 characters of [a-zA-Z0-9]
Body == [i \in 1..(TokenBody - 1) |-> Ascii.zero + (i % 10)]

\* What the messages are put together from
Parts ==
  { Lit.ghp, Lit.gho, Lit.ghs, Body, <<Ascii.loA>>, <<32>>,
    Lit.key \o <<61>>, Lit.failed }

Errors ==
  {NoError} \cup
  {[given |-> TRUE, message |-> Concat(ps)] :
     ps \in UNION {[1..n -> Parts] : n \in 0..MaxParts}}

Sanitize ==
  /\ ~sanitized.isString
  /\ sanitized' = String(sanitizeErrorMessage(err))
  /\ UNCHANGED err
  /\ UNCHANGED <<storeVars, cachedSalt, saltVars, cipherVars, pathVars, uploadVars>>
  /\ UNCHANGED <<rateVars, downloadVars, commandVars>>

SanitizeInit ==
  /\ Only("sanitize")
  /\ err \in Errors
  /\ sanitized = NotAString

SanitizeNext == Sanitize

SanitizeSpec == SanitizeInit /\ [][SanitizeNext]_vars

----------------------------------------------------------------------------
(* Properties *)

\* The invocation is inside the callback it passed to withLock.
InCallback(p) == pc[p] \in {"load", "openTmp", "writeTmp", "rename"}

Done(p) == pc[p] = "done"

\* No other invocation was ever called.
Alone(p) == \A q \in Procs \ {p} : pc[q] = "idle"

\* The lock file a crashed run left behind is still there.
LeftoverThere == lockFile.held /\ lockFile.owner = 0

\* C1: at any moment at most one saveUserToken/removeUserToken invocation is
\* inside the callback it passed to withLock.
C1_MutualExclusion ==
  \A p, q \in Procs : p # q => ~(InCallback(p) /\ InCallback(q))

\* C2: when concurrent saveUserToken calls for different identities have all
\* returned successfully, the store file is a complete record map that holds
\* the record each of them wrote.
C2_NoLostUpdate ==
  ( /\ \A p \in Procs : Done(p) /\ op[p].kind = "save" /\ result[p] = "ok"
    /\ \A p, q \in Procs : p # q => op[p].id # op[q].id )
  => /\ tokensFile.st = "data"
     /\ \A p \in Procs : tokensFile.map[op[p].id] =
           encryptToken(op[p].token, TheSecret, cachedSalt, p)

\* C3: a lock-free read never finds the store file partially written or
\* unparsable: no getUserToken call fails in loadTokens.
C3_ReaderConsistency == got.res # "throws"

\* C4: with the salt initialized, once saveUserToken(id, t) has completed and
\* no other invocation has touched id, getUserToken(id) returns t; once
\* removeUserToken(id) has completed, getUserToken(id) returns null.
C4_RoundTrip ==
  \A p \in Procs :
    ( /\ Done(p) /\ cachedSalt.set
      /\ \A q \in Procs \ {p} : op[q].id # op[p].id )
    => /\ (op[p].kind = "save" /\ result[p] = "ok")
            => GetUserToken(tokensFile, op[p].id, cachedSalt) =
                 [res |-> "token", val |-> op[p].token]
       /\ (op[p].kind = "remove" /\ result[p] \in {"true", "false"})
            => GetUserToken(tokensFile, op[p].id, cachedSalt).res = "null"

C6_TimeoutChangesNothing ==
  \A p \in Procs :
    (pc[p] # "idle" /\ freshAll[p]) =>
      /\ pc[p] # "unlink"
      /\ ~InCallback(p) /\ pc[p] # "release"
      /\ ~hist[p].entered /\ ~hist[p].wrote /\ ~hist[p].unlinked
      /\ ~acquired[p]
      /\ Done(p) => /\ result[p] = "timeout"
                    /\ now - startTime[p] >= LOCK_TIMEOUT

C6_Witness ==
  \E p \in Procs :
    /\ Done(p) /\ result[p] = "timeout" /\ freshAll[p]
    /\ lockFile.held /\ lockFile.owner \in Procs \ {p}

\* The records of the store files the model starts from.
InitialRecords == UNION {{f.map[i] : i \in Ids} : f \in InitialStores}

\* C7: every record of the store file and of its temporary file that the
\* program wrote holds encryptToken's output for the token saved, and no
\* record of either file is a token in the clear.
C7_NeverPlaintext ==
  \A f \in {tokensFile, tmpFile} : \A i \in Ids :
    /\ \A t \in Tokens : f.map[i] # <<t>>
    /\ f.map[i] \notin InitialRecords
         => \E iv \in Procs :
              f.map[i] = encryptToken(TokenOf(i), TheSecret, cachedSalt, iv)

C7_Witness ==
  \E p \in Procs :
    /\ Done(p) /\ op[p].kind = "save" /\ result[p] = "ok"
    /\ tokensFile.st = "data"
    /\ tokensFile.map[op[p].id] \notin InitialRecords
    /\ tokensFile.map[op[p].id] =
         encryptToken(op[p].token, TheSecret, cachedSalt, p)

\* The record getUserToken(i) finds in the store file.
RecordOf(i) == Loaded(tokensFile)[i]

\* C8: a getUserToken call on a parsable store file answers null when the
\* identity has no record and when its record does not decrypt; it answers
\* the same in both cases.
C8_NullNotThrow ==
  (got.id # 0 /\ Parsable(tokensFile)) =>
    ( (RecordOf(got.id) = <<>> \/ ~DecryptOk(RecordOf(got.id), TheSecret, cachedSalt))
      => got = [id |-> got.id, res |-> "null", val |-> 0] )

C8_Witness ==
  /\ got.id # 0 /\ got.res = "null"
  /\ RecordOf(got.id) # <<>>
  /\ ~DecryptOk(RecordOf(got.id), TheSecret, cachedSalt)

\* C9: two removeUserToken calls for the same identity never both return
\* true.
C9_OneRemoveWins ==
  \A p, q \in Procs :
    ( /\ p # q /\ Done(p) /\ Done(q)
      /\ op[p].kind = "remove" /\ op[q].kind = "remove"
      /\ op[p].id = op[q].id )
    => ~(result[p] = "true" /\ result[q] = "true")

\* C10: once a salt is cached it never changes, for every interleaving of
\* initEncryption calls.
C10_SaltNeverChanges ==
  [][cachedSalt.set => cachedSalt' = cachedSalt]_vars

\* C11 as stated: for every string x, every secret of 32 characters or more
\* and a loaded salt, decryptToken(encryptToken(x)) returns x.
C11_RoundTripAnyString ==
  /\ cpc # "roundTripThrew"
  /\ cpc = "roundTrip" => plain = cin.x

\* C11, amended: the same for every string x without an unpaired surrogate;
\* a string with one comes back with U+FFFD in its place.
C11_RoundTripWellFormed ==
  /\ cpc # "roundTripThrew"
  /\ (cpc = "roundTrip" /\ cin.x # Unpaired) => plain = cin.x
  /\ (cpc = "roundTrip" /\ cin.x = Unpaired) => plain = Replaced

C11_Witness ==
  /\ cpc = "roundTrip" /\ cin.x \in Tokens /\ plain = cin.x
  /\ cin.secret.len > 32 /\ cachedSalt = LostSalt

\* C12: while no salt is loaded no getUserToken call returns a token, and a
\* saveUserToken invocation never opens the temp file, never replaces the
\* store file, and once it has had the lock it ends with an error, its lock
\* released.
C12_FailsWithoutSalt ==
  ~cachedSalt.set =>
    /\ got.res # "token"
    /\ \A p \in Procs :
         op[p].kind = "save" =>
           /\ ~hist[p].wrote /\ fd[p] = "none" /\ tokens[p] = EmptyMap
           /\ pc[p] \notin {"openTmp", "writeTmp", "rename"}
           /\ (Done(p) /\ hist[p].entered)
                => /\ result[p] = "error"
                   /\ ~acquired[p]
                   /\ ~(lockFile.held /\ lockFile.owner = p)

C12_Witness ==
  \E p \in Procs :
    /\ ~cachedSalt.set /\ op[p].kind = "save" /\ Done(p)
    /\ hist[p].entered /\ result[p] = "error" /\ ~lockFile.held
    /\ tokensFile.st = "data"

\* The raw string of the path and, where it has one, its decoded form
Forms(p) ==
  {p.chars} \cup (IF decodeURIComponent(p.chars).ok
                  THEN {decodeURIComponent(p.chars).str} ELSE {})

\* s holds '..' as a whole segment
DotDotSegment(s) ==
  \E i \in 1..(Len(s) - 1) :
    /\ s[i] = Ascii.dot /\ s[i + 1] = Ascii.dot
    /\ i = 1 \/ s[i - 1] = Ascii.slash
    /\ i + 1 = Len(s) \/ s[i + 2] = Ascii.slash

\* s holds an encoded '..': %2e%2e, .%2e, %2e. or %252e%252e
EncodedDots(s) ==
  \E pat \in {Pct2e \o Pct2e, <<Ascii.dot>> \o Pct2e, Pct2e \o <<Ascii.dot>>,
               Pct252e \o Pct252e} : Contains(LowerCase(s), pat)

ControlByte(s) == \E i \in 1..Len(s) : s[i] < 32

Backslash(s) == \E i \in 1..Len(s) : s[i] = Ascii.bslash

Absolute(s) == s # <<>> /\ (s[1] = Ascii.slash \/ DriveLetter(s))

\* C15: isValidPath rejects a non-string, the empty string, every path
\* whose raw or percent-decoded form holds '..' (plain or encoded), a
\* control byte or a backslash, and every path that begins with '/' or a
\* drive letter.
C15_RejectsDangerous ==
  ( /\ valid # "none"
    /\ \/ ~path.isString
       \/ path.chars = <<>>
       \/ Absolute(path.chars)
       \/ \E s \in Forms(path) :
            \/ Contains(s, Dots) \/ EncodedDots(s)
            \/ ControlByte(s) \/ Backslash(s) )
  => valid = "rejected"

\* C16: isValidPath accepts every non-empty path to which no rejection rule
\* applies: no '..' segment, plain or encoded, no control byte and no
\* backslash in its raw or decoded form, no leading '/', no drive letter.
C16_AcceptsValid ==
  ( /\ valid # "none" /\ path.isString /\ path.chars # <<>>
    /\ ~Absolute(path.chars)
    /\ \A s \in Forms(path) :
         /\ ~DotDotSegment(s) /\ ~EncodedDots(s)
         /\ ~ControlByte(s) /\ ~Backslash(s) )
  => valid = "accepted"

\* The documented limits of an archive: total uncompressed size (MiB),
\* compression ratio of an entry, number of file entries
MAX_TOTAL_SIZE == 500
MAX_COMPRESSION_RATIO == 100
MAX_FILES == 10000

RECURSIVE TotalSize(_, _)
TotalSize(zip, n) == IF n = 0 THEN 0 ELSE TotalSize(zip, n - 1) + zip[n].size

\* The archive exceeds one of the documented limits
OverBounds(zip) ==
  LET files == {k \in 1..Len(zip) : ~zip[k].isDirectory}
  IN \/ TotalSize(zip, Len(zip)) > MAX_TOTAL_SIZE
     \/ \E k \in files : zip[k].size > MAX_COMPRESSION_RATIO * zip[k].compressedSize
     \/ Cardinality(files) > MAX_FILES

\* C13: of an archive over the limits no entry's data is read and no call
\* to the hosting API is made
C13_BoundsBeforeRead ==
  OverBounds(zipBuffer) => (readData = {} /\ calls = EmptyBag)

\* The remote paths handed to createOrUpdateFileContents for archive entries
WrittenPaths ==
  {c.remote : c \in {c \in BagToSet(calls) :
                       c.api = "createOrUpdateFileContents" /\ c.entry # 0}}

\* C14: no create-or-update call is issued with a remote path that holds a
\* '..' segment, a backslash or a control byte, or that begins with '/'.
C14_NoTraversalReachesRemote ==
  \A s \in WrittenPaths :
    /\ ~DotDotSegment(s) /\ ~Backslash(s) /\ ~ControlByte(s)
    /\ ~(s # <<>> /\ s[1] = Ascii.slash)

\* The file entries of the archive
FileEntries == {k \in 1..Len(zipBuffer) : ~zipBuffer[k].isDirectory}

\* The leading directory of an entry name, with its '/', or <<>> when the
\* name has no directory
LeadingDir(name) ==
  IF Len(Split(name)) > 1 THEN Split(name)[1] \o Sl ELSE <<>>

\* Every file entry of the archive lies under the leading directory dir
SharedRoot(dir) ==
  /\ dir # Sl /\ dir # <<>>
  /\ FileEntries # {}
  /\ \A k \in FileEntries : LeadingDir(zipBuffer[k].entryName) = dir

\* C17: when every file entry lies under the same leading directory, each
\* entry is written under its path with that directory removed, joined to
\* the target folder when one is given.
C17_CommonRootStripped ==
  \A c \in BagToSet(calls) :
    (c.api = "createOrUpdateFileContents" /\ c.entry # 0)
      => \A dir \in {LeadingDir(zipBuffer[k].entryName) : k \in FileEntries} :
           SharedRoot(dir)
             => c.remote = FilePath(folderPath,
                                    Rest(zipBuffer[c.entry].entryName, Len(dir)))

\* The entries listed as failed in the outcome
Listed == {failedFiles[i].entry : i \in 1..Len(failedFiles)}

\* The write of entry k has succeeded: createOrUpdateFileContents resolved
Published(k) ==
  \/ est[k] \in {"progress", "ok"}
  \/ \E i \in 1..Len(failedFiles) :
       failedFiles[i].entry = k /\ failedFiles[i].reason = "progress"

\* C18: when the upload returns, every entry has been attempted, the number
\* reported as uploaded is the total less the entries whose publish failed,
\* and the entries listed as failed are exactly those.
C18_FailureIsolation ==
  upc = "done" =>
    LET F == {k \in Range(zipEntries) : ~Published(k)}
    IN /\ readData = Range(zipEntries)
       /\ uploadedFiles = Len(zipEntries) - Cardinality(F)
       /\ Listed = F
       /\ Len(failedFiles) = Cardinality(F)

\* The number of the batch that holds the entry at position j of zipEntries
BatchOf(j) == (j - 1) \div BATCH_SIZE

\* A call to the hosting API has been issued for entry k
Started(k) == \E c \in BagToSet(calls) : c.entry = k

\* C19: at most BATCH_SIZE entries are in flight, and no entry of a later
\* batch has a call to the hosting API issued before every entry of the
\* batches before it has settled.
C19_BoundedInFlight ==
  /\ Cardinality({k \in DOMAIN est : InFlight(k)}) <= BATCH_SIZE
  /\ \A i, j \in 1..Len(zipEntries) :
       (BatchOf(i) < BatchOf(j) /\ Started(zipEntries[j]))
         => Settled(zipEntries[i])

\* The five entries of the second batch are in flight
C19_Witness ==
  /\ Len(zipEntries) >= 2 * BATCH_SIZE
  /\ \A j \in (BATCH_SIZE + 1)..(2 * BATCH_SIZE) :
       InFlight(zipEntries[j]) /\ Started(zipEntries[j])
  /\ \A j \in 1..BATCH_SIZE : Settled(zipEntries[j])

\* The number of createOrUpdateFileContents calls issued for entry k
Attempts(k) ==
  LET puts == {c \in BagToSet(calls) :
                 c.api = "createOrUpdateFileContents" /\ c.entry = k}
      RECURSIVE Sum(_)
      Sum(S) == IF S = {} THEN 0
                ELSE LET c == CHOOSE x \in S : TRUE
                     IN CopiesIn(c, calls) + Sum(S \ {c})
  IN Sum(puts)

\* Entry k is listed as failed because of a version conflict
ConflictFailed(k) ==
  \E i \in 1..Len(failedFiles) :
    failedFiles[i].entry = k /\ failedFiles[i].reason = "conflict"

\* C20: an entry is reported as failed on a version conflict only after
\* three attempts to write it.
C20_ConflictRetried ==
  \A k \in DOMAIN est : ConflictFailed(k) => Attempts(k) = 3

\* The write of the placeholder README has been issued
ReadmeWritten ==
  \E c \in BagToSet(calls) :
    c.api = "createOrUpdateFileContents" /\ c.entry = 0 /\ c.remote = W.readme

\* C21: while ensureRepoHasContent has not resolved, and after its write of
\* the placeholder has failed, no call for an entry has been issued; the
\* placeholder is written before any entry.
C21_BootstrapFirst ==
  /\ upc \in {"start", "bootstrapGet", "bootstrapPut", "threw"}
       => \A c \in BagToSet(calls) : c.entry = 0
  /\ upc \in {"bootstrapPut", "threw"} => ReadmeWritten

\* The write of the placeholder failed for an archive that has entries
C21_Witness ==
  upc = "threw" /\ ReadmeWritten /\ zipEntries # <<>>

\* The last check was made for an identity that had an entry
Rechecked == limited.userId # 0 /\ limited.before # NoEntry

\* C22: an allowed command comes at least COOLDOWN_BETWEEN_COMMANDS after
\* the identity's last allowed command.
C22_MinimumInterval ==
  (Rechecked /\ limited.allowed)
    => clock - limited.before.lastCommand >= COOLDOWN_BETWEEN_COMMANDS

\* C23: from any allowed command on, at most MAX_COMMANDS_PER_WINDOW
\* commands of the identity are allowed within RATE_LIMIT_WINDOW.
C23_RollingWindowCap == seen.count <= MAX_COMMANDS_PER_WINDOW

C25_RetryAfterPositive ==
  (limited.userId # 0 /\ ~limited.allowed) => limited.retryAfter >= 1

\* C26: never more than MAX_FILE_SIZE bytes are buffered, and no buffer
\* larger than that is handed to the caller.
C26_SizeCap ==
  /\ totalSize <= MAX_FILE_SIZE
  /\ settled.how = "resolved" => settled.size <= MAX_FILE_SIZE

\* C27: once more than DOWNLOAD_TIMEOUT has passed since the request, the
\* promise has settled.
C27_SettlesInTime ==
  waited > DOWNLOAD_TIMEOUT => settled.how # "pending"

\* C28: a login whose token is not verified, or lacks the repo scope, leaves
\* the store file as it was.
C28_OnlyVerifiedPersisted ==
  (cmd.kind = "login" /\ cmd.grant # "repo") => tokensFile = atStart

\* C29: when the logout of an identity that had a record has completed, the
\* store holds no record of it and whoami answers that it is not
\* authenticated.
C29_LogoutDeletes ==
  (cmd.kind = "logout" /\ cmd.step = "done" /\ Loaded(atStart)[cmd.user] # <<>>)
    => /\ RecordOf(cmd.user) = <<>>
       /\ WhoAmI(tokensFile, cmd.user) = "notAuthenticated"

\* The GitHub tokens in s: gh, p, o or s, _ and the TokenBody or more
\* characters of [a-zA-Z0-9] that follow
TokensIn(s) ==
  {SubSeq(s, i, i + Prefixed(GitHubLetters, s, i) - 1) :
     i \in {j \in 1..Len(s) : Prefixed(GitHubLetters, s, j) > 0}}

\* C30: no GitHub token of the message occurs in what sanitizeErrorMessage
\* returns.
C30_TokensRedacted ==
  sanitized.isString =>
    \A t \in TokensIn(err.message) : ~Contains(sanitized.chars, t)

\* C31: a saveUserToken/removeUserToken invocation that has returned, however
\* its callback ended, has been through release: it no longer marks the lock
\* as acquired and no lock file it created is there; so once every
\* invocation has returned, no lock file of any of them remains.
C31_LockAlwaysReleased ==
  /\ \A p \in Procs :
       Done(p) => /\ ~acquired[p]
                  /\ ~(lockFile.held /\ lockFile.owner = p)
  /\ (\A p \in Procs : Done(p)) => ~(lockFile.held /\ lockFile.owner \in Procs)

C31_Witness ==
  /\ \A p \in Procs : Done(p) /\ hist[p].entered
  /\ \E p \in Procs : result[p] = "error"
  /\ \E p \in Procs : result[p] \in {"ok", "true"}
  /\ lockFile = NoLock

\* C33: release of one invocation never removes a lock file that another
\* invocation created, and the unlink of the stale-lock rule only ever
\* removes a lock file older than LOCK_TIMEOUT.
C33_ReleaseOwnLock ==
  [][\A p \in Procs :
       (lockFile.held /\ ~lockFile'.held) =>
         /\ (pc[p] = "release" /\ pc'[p] = "done") => lockFile.owner = p
         /\ (pc[p] = "unlink" /\ pc'[p] = "sleep")
              => now - lockFile.mtime > LOCK_TIMEOUT]_vars

\* C34: once removeUserToken(id) has returned true, and while no other
\* invocation has been called for id, the store file holds no record of id.
C34_RemovedStaysRemoved ==
  \A p \in Procs :
    ( /\ Done(p) /\ op[p].kind = "remove" /\ result[p] = "true"
      /\ \A q \in Procs \ {p} : op[q].id # op[p].id )
    => Loaded(tokensFile)[op[p].id] = <<>>

\* The writes issued for entry k
PutsOf(k) ==
  {c \in BagToSet(calls) : c.api = "createOrUpdateFileContents" /\ c.entry = k}

\* The entry's read of the remote file has settled.
MarkerRead(k) == est[k] \in {"put", "progress", "ok", "failed"}

\* C32: an entry whose marker read answers 404 is written without a marker
\* and is not failed for it; an entry whose remote file is found is written
\* with the marker read; an entry whose marker read fails otherwise is failed
\* without any write, and the entries beside it are published all the same.
C32_CreateOrUpdate ==
  \A k \in DOMAIN est :
    /\ \A c \in PutsOf(k) : c = PutCall(k, sha[k]) /\ calls[c] = 1
    /\ \A j \in 1..Len(failedFiles) :
         (failedFiles[j].entry = k /\ failedFiles[j].reason = "getContent")
           => PutsOf(k) = {}
    /\ (zipBuffer[k].fate # "any" /\ MarkerRead(k)) =>
         LET answer == Script[zipBuffer[k].fate][1]
         IN /\ answer = "notFound" => PutsOf(k) = {PutCall(k, "none")}
            /\ answer = "found" => PutsOf(k) = {PutCall(k, "sha")}
            /\ answer = "error" => PutsOf(k) = {} /\ est[k] = "failed"
    /\ (upc = "done" /\ zipBuffer[k].fate \in {"created", "updated"})
         => est[k] = "ok"

C32_Witness ==
  /\ upc = "done"
  /\ \E k \in DOMAIN est :
       zipBuffer[k].fate = "updated" /\ est[k] = "ok" /\ sha[k] = "sha"
  /\ \E k \in DOMAIN est :
       zipBuffer[k].fate = "created" /\ est[k] = "ok" /\ sha[k] = "none"
  /\ \E k \in DOMAIN est :
       zipBuffer[k].fate = "forbidden" /\ est[k] = "failed" /\ PutsOf(k) = {}

\* The entries whose write succeeded: each was counted in uploadedFiles
Counted == {k \in DOMAIN est : est[k] \in {"progress", "ok"}
                               \/ \E j \in 1..Len(failedFiles) :
                                    failedFiles[j] = [entry |-> k, reason |-> "progress"]}

\* C35: when uploadZipContentsToGitHub returns, uploadedFiles plus the
\* length of failedFiles is totalFiles, and no entry is both counted as
\* uploaded and listed as failed.
C35_UploadAccounting ==
  upc = "done" =>
    /\ uploadedFiles + Len(failedFiles) = Len(zipEntries)
    /\ \A j \in 1..Len(failedFiles) : failedFiles[j].entry \notin Counted

\* C36: a denied check leaves the whole map as it was, and a check never
\* changes the entry of another identity than the one it is made for.
C36_DeniedChangesNothing ==
  [][/\ \A u \in Users :
          u # limited'.userId => rateLimitMap'[u] = rateLimitMap[u]
     /\ ~limited'.allowed => rateLimitMap' = rateLimitMap]_vars

\* A denial at the cap, an entry of the other identity being there, whose
\* entry is as it was before the check
C36_Witness ==
  /\ limited.userId # 0 /\ ~limited.allowed
  /\ limited.before.commandCount = MAX_COMMANDS_PER_WINDOW
  /\ clock - limited.before.lastCommand >= COOLDOWN_BETWEEN_COMMANDS
  /\ rateLimitMap[limited.userId] = limited.before
  /\ \E u \in Users \ {limited.userId} : rateLimitMap[u] # NoEntry

\* C37: a check of an identity made retryAfter seconds after a denied check
\* of it, with no check in between, is allowed.
C37_RetryAfterHonoured ==
  [][( /\ limited.userId # 0 /\ ~limited.allowed
       /\ limited'.userId = limited.userId
       /\ clock' = clock + limited.retryAfter * MsPerSecond )
     => limited'.allowed]_vars

\* C38: every stored entry has a count from 1 to MAX_COMMANDS_PER_WINDOW and
\* a last command no later than its reset time; the reset time of an entry
\* changes only at an allowed check that opens a window, with count 1, and is
\* then the time of that check plus RATE_LIMIT_WINDOW.
C38_EntryInvariant ==
  /\ [](\A u \in Users :
          rateLimitMap[u] # NoEntry =>
            /\ rateLimitMap[u].commandCount >= 1
            /\ rateLimitMap[u].commandCount <= MAX_COMMANDS_PER_WINDOW
            /\ rateLimitMap[u].lastCommand <= rateLimitMap[u].resetTime)
  /\ [][\A u \in Users :
          rateLimitMap'[u].resetTime # rateLimitMap[u].resetTime =>
            /\ limited'.userId = u /\ limited'.allowed
            /\ rateLimitMap'[u] = [lastCommand |-> clock', commandCount |-> 1,
                                   resetTime |-> clock' + RATE_LIMIT_WINDOW]]_vars

\* A window filled to the cap has been followed by a new one.
C38_Witness ==
  /\ limited.userId # 0 /\ limited.allowed
  /\ limited.before.commandCount = MAX_COMMANDS_PER_WINDOW
  /\ rateLimitMap[limited.userId].commandCount = 1
  /\ rateLimitMap[limited.userId].resetTime = clock + RATE_LIMIT_WINDOW

\* The names of the entries kept by the filter
KeptNames == {zipBuffer[zipEntries[j]].entryName : j \in 1..Len(zipEntries)}

\* C39: every entry name handed to findCommonPrefix starts with the prefix
\* it returned and is longer than it, so the prefix is taken off every
\* entry or none and no file name is left empty.
C39_UniformPrefix ==
  upc # "start" =>
    \A name \in KeptNames :
      /\ StartsWith(name, commonPrefix)
      /\ Len(name) > Len(commonPrefix)
      /\ FileName(name, commonPrefix) # <<>>

\* C40: a salt that is not SALT_LENGTH bytes long never stays cached: no key
\* is derived from one, and no initEncryption call completes with one.
C40_InvalidSaltNeverUsed ==
  /\ CanDeriveKey(TheSecret, cachedSalt) => ValidLength(cachedSalt)
  /\ \A c \in SaltCalls : spc[c] = "done" => ValidLength(cachedSalt)

====
